---- MODULE Spec2Model ----
(***************************************************************************)
(* A model of the kiln controller: the Oven control loop and its session   *)
(* lifecycle (lib/oven.py) over the SQLite session store (lib/kiln_db.py). *)
(*                                                                         *)
(* Conventions                                                             *)
(*   - time is the wall clock in whole seconds (time.time() and            *)
(*     datetime.now() read the same clock `now`);                          *)
(*   - temperatures are whole degrees; a PID output is a duty in whole     *)
(*     percent (0..100), `heat` is in hundredths of a second and `cost` in *)
(*     units of kwh_rate * kw_elements / 360000, so that the products the  *)
(*     code forms in floating point stay integers;                         *)
(*   - Python's None is None (0) for a session id or a profile, and        *)
(*     NoneTs (-1) for a timestamp;                                        *)
(*   - a session id (uuid4 in the code) is the index of its row.           *)
(***************************************************************************)
EXTENDS Integers, Sequences, FiniteSets, TLC

None == 0
NoneTs == 0 - 1

(***************************************************************************)
(* Bounds of the model.                                                    *)
(***************************************************************************)
\* seconds the clock may run past the cooldown capture cap
Horizon == 6
\* sessions the store may hold
MaxSessions == 2
\* operations in one behaviour: of the session lifecycle, of the emergency
\* checks, of the cooldown capture, of the store alone, of the threads that
\* share the cooldown fields (calls, not statements) and of the control loop
MaxSteps == 4
MaxEmergencySteps == 3
MaxCooldownSteps == 6
MaxDbSteps == 4
MaxRaceSteps == 5
MaxControlSteps == 4
\* calls of PID.compute in one behaviour
MaxPidSteps == 4
\* calls of the Profile methods in one behaviour
MaxProfileSteps == 2
\* calls of the store in one behaviour of its samples
MaxSampleSteps == 6
\* operations of SpecSchema
MaxSchemaSteps == 5
\* operations of SpecReads
MaxReadSteps == 2
\* operations of SpecSkip
MaxSkipSteps == 4

(***************************************************************************)
(* Program constants and the fixed part of the configuration.              *)
(***************************************************************************)
\* 48 * 60 * 60, the cooldown capture cap
COOLDOWN_CAP == 172800
\* threshold below which cooldown capture ends, by temperature scale
THRESHOLD_F == 200
THRESHOLD_C == 93
\* bad_percent above which the sensor counts as degraded
BAD_PERCENT_LIMIT == 30
\* PID.compute's window_size
window_size == 100
\* config.sensor_time_wait
time_step == 2
\* config.thermocouple_offset
thermocouple_offset == 10
\* config.emergency_shutoff_temp
emergency_shutoff_temp == 500
\* config.pid_control_window
pid_control_window == 5
\* config.pid_kp, config.pid_ki, config.pid_kd
pid_kp == 10
pid_ki == 1
pid_kd == 2
\* config.automatic_restart_window, in minutes
automatic_restart_window == 15

MaxNow == COOLDOWN_CAP + Horizon

(***************************************************************************)
(* Profiles (class Profile): a name and the sorted control points.         *)
(***************************************************************************)
Profiles ==
    << [name |-> "short", data |-> << <<0, 70>>, <<60, 100>> >>],
       [name |-> "ramp_soak", data |-> << <<0, 70>>, <<2, 90>>, <<4, 90>>, <<6, 70>> >>],
       [name |-> "late_start", data |-> << <<10, 70>>, <<20, 100>> >>] >>

\* the profiles that are run; the third, whose first point is not at time 0,
\* is only asked for its points
ProfileIds == {1, 2}
AllProfiles == 1..Len(Profiles)

RECURSIVE MaxTime(_, _)
MaxTime(data, i) ==
    IF i = 0 THEN 0
    ELSE LET m == MaxTime(data, i - 1)
         IN IF i = 1 \/ data[i][1] > m THEN data[i][1] ELSE m

\* Profile.get_duration
get_duration(p) == MaxTime(Profiles[p].data, Len(Profiles[p].data))

\* Profile.get_surrounding_points: the index of the first point whose time is
\* greater than `time` (0: no such point, the code returns (None, None)).
get_surrounding_points(p, time) ==
    LET data == Profiles[p].data
        later == {i \in 1..Len(data) : time < data[i][1]}
    IN IF time > get_duration(p) \/ later = {} THEN 0
       ELSE CHOOSE i \in later : \A j \in later : i <= j

\* data[i-1] with Python's index wrap-around (data[-1] is the last point)
PrevIndex(p, i) == IF i = 1 THEN Len(Profiles[p].data) ELSE i - 1

\* Profile.get_target_temperature raises TypeError when next_point is None
target_raises(p, time) ==
    /\ ~(time > get_duration(p))
    /\ get_surrounding_points(p, time) = 0

\* Profile.get_target_temperature (where it does not raise)
get_target_temperature(p, time) ==
    IF time > get_duration(p) THEN 0
    ELSE LET data == Profiles[p].data
             i == get_surrounding_points(p, time)
             next_point == data[i]
             prev_point == data[PrevIndex(p, i)]
         IN prev_point[2]
              + ((time - prev_point[1]) * (next_point[2] - prev_point[2]))
                    \div (next_point[1] - prev_point[1])

\* Profile.find_time_for_temperature: the scan of the segments i = lo..Len(data);
\* NoneTs stands for None.
RECURSIVE find_in_segments(_, _, _, _)
find_in_segments(p, target_temp, from_time, i) ==
    LET data == Profiles[p].data
    IN IF i > Len(data) THEN NoneTs
       ELSE LET seg_end_time == data[i][1]
                seg_end_temp == data[i][2]
                inside == from_time > data[i - 1][1]
                seg_start_time == IF inside THEN from_time ELSE data[i - 1][1]
                seg_start_temp == IF inside THEN get_target_temperature(p, from_time)
                                  ELSE data[i - 1][2]
                temp_span == seg_end_temp - seg_start_temp
            IN IF seg_end_time <= from_time
               THEN find_in_segments(p, target_temp, from_time, i + 1)
               ELSE IF seg_end_temp >= target_temp
                    THEN IF seg_start_temp >= target_temp THEN seg_start_time
                         ELSE IF temp_span <= 0
                              THEN find_in_segments(p, target_temp, from_time, i + 1)
                              ELSE seg_start_time
                                     + ((target_temp - seg_start_temp)
                                          * (seg_end_time - seg_start_time)) \div temp_span
                    ELSE find_in_segments(p, target_temp, from_time, i + 1)

find_time_for_temperature(p, target_temp, from_time) ==
    IF from_time >= get_duration(p) THEN NoneTs
    ELSE IF get_target_temperature(p, from_time) >= target_temp THEN from_time
    ELSE find_in_segments(p, target_temp, from_time, 2)

(***************************************************************************)
(* The configuration (module config): fixed for the life of the process.   *)
(***************************************************************************)
BaseConfig ==
    [ ignore_temp_too_high |-> FALSE,
      ignore_lost_connection_tc |-> FALSE,
      ignore_unknown_tc_error |-> FALSE,
      ignore_too_many_tc_errors |-> FALSE,
      temp_scale |-> "f",
      sqlite_db_path |-> TRUE,
      automatic_restarts |-> FALSE,
      kiln_must_catch_up |-> TRUE,
      warmup_skip_threshold |-> 0,
      simulate |-> TRUE ]

IgnoreConfigs ==
    { [BaseConfig EXCEPT !.ignore_temp_too_high = a,
                         !.ignore_lost_connection_tc = b,
                         !.ignore_unknown_tc_error = c,
                         !.ignore_too_many_tc_errors = d] :
        a \in BOOLEAN, b \in BOOLEAN, c \in BOOLEAN, d \in BOOLEAN }

CelsiusConfig == [BaseConfig EXCEPT !.temp_scale = "c"]
\* warmup-skip enabled, its threshold above every temperature of the profiles
WarmupSkipConfig == [ BaseConfig EXCEPT !.warmup_skip_threshold = 200 ]

\* no store configured
NoStoreConfig == [ BaseConfig EXCEPT !.sqlite_db_path = FALSE ]

RestartConfig == [BaseConfig EXCEPT !.automatic_restarts = TRUE]

(***************************************************************************)
(* What the sensor thread publishes (class TempSensor).                    *)
(***************************************************************************)
Reading(temp, nc, gnd, vcc, unk, bad) ==
    [ temperature |-> temp, noConnection |-> nc, shortToGround |-> gnd,
      shortToVCC |-> vcc, unknownError |-> unk, bad_percent |-> bad ]

\* a good reading of `temp` degrees
Good(temp) == Reading(temp, FALSE, FALSE, FALSE, FALSE, 0)

VARIABLES
    cfg,        \* the configuration
    sensor,     \* board.temp_sensor: the latest published reading
    now,        \* the wall clock, seconds
    oven,       \* the fields of the Oven object, and the control thread
    db,         \* the SQLite store: sessions and session_samples
    state_file, \* config.automatic_restart_state_file
    steps,      \* how many operations have run
    last,       \* the operation that produced this state, and what it did
    lock,       \* Oven._session_lock: the thread that holds it
    threads,    \* where each thread stands inside the handler it is running
    cancellations \* the cooldown cancellations that have completed, in order

vars == <<cfg, sensor, now, oven, db, state_file, steps, last, lock, threads,
          cancellations>>

(***************************************************************************)
(* lib/kiln_db.py                                                          *)
(***************************************************************************)
SessionIds(d) == 1..Len(d.sessions)

\* create_session: INSERT INTO sessions; returns the new id
create_session(d, profile_name, t, outcome) ==
    [ d EXCEPT !.sessions = Append(@,
        [ id |-> Len(d.sessions) + 1, created_at |-> t, started_at |-> t,
          ended_at |-> NoneTs, profile_name |-> profile_name, outcome |-> outcome ]) ]

\* stop_session: UPDATE ... WHERE id = ? AND ended_at IS NULL; bool(rowcount)
stop_session_updated(d, session_id) ==
    /\ session_id \in SessionIds(d)
    /\ d.sessions[session_id].ended_at = NoneTs

\* a stop_session whose UPDATE lacks "AND ended_at IS NULL"
stop_session_overwriting(d, session_id, ended_at, outcome) ==
    IF session_id \in SessionIds(d)
    THEN [ d EXCEPT !.sessions[session_id].ended_at = ended_at,
                    !.sessions[session_id].outcome = outcome ]
    ELSE d

stop_session(d, session_id, ended_at, outcome) ==
    IF stop_session_updated(d, session_id)
    THEN [ d EXCEPT !.sessions[session_id].ended_at = ended_at,
                    !.sessions[session_id].outcome = outcome ]
    ELSE d

\* add_session_sample raises (FOREIGN KEY) for a session id with no row
add_session_sample_raises(d, session_id) == session_id \notin SessionIds(d)

\* an add_session_sample that keeps the row it finds (INSERT OR IGNORE)
add_session_sample_keeping_first(d, session_id, state, t) ==
    IF add_session_sample_raises(d, session_id) THEN d
    ELSE IF \E r \in d.samples : r.session_id = session_id /\ r.t = t THEN d
    ELSE [ d EXCEPT !.samples =
             @ \cup { [session_id |-> session_id, t |-> t, state |-> state] } ]

\* add_session_sample: INSERT OR REPLACE INTO session_samples, key (session_id, t)
add_session_sample(d, session_id, state, t) ==
    IF add_session_sample_raises(d, session_id) THEN d
    ELSE [ d EXCEPT !.samples =
             { r \in @ : ~(r.session_id = session_id /\ r.t = t) }
               \cup { [session_id |-> session_id, t |-> t, state |-> state] } ]

(***************************************************************************)
(* lib/kiln_db.py: the schema.  `tables` are the tables of the database    *)
(* file and `schema_version` the rows of its schema_version table.         *)
(***************************************************************************)
LATEST_SCHEMA_VERSION == 1

\* MIGRATIONS: the tables each version creates (CREATE TABLE IF NOT EXISTS)
MIGRATIONS ==
    [ v \in {1} |-> [ version |-> 1, name |-> "init_sessions",
                      tables |-> {"sessions", "session_samples"} ] ]

\* a database file that does not exist yet
FreshDb == [ sessions |-> <<>>, samples |-> {}, tables |-> {}, schema_version |-> <<>> ]

\* _ensure_schema_version_table
_ensure_schema_version_table(d) == [ d EXCEPT !.tables = @ \cup {"schema_version"} ]

MaxOf(versions) ==
    CHOOSE v \in { versions[i] : i \in 1..Len(versions) } :
        \A i \in 1..Len(versions) : versions[i] <= v

\* _get_schema_version: the value it returns
_get_schema_version(d) ==
    IF d.schema_version = <<>> THEN 0 ELSE MaxOf(d.schema_version)

\* _get_schema_version: the rows it leaves (a first row 0; several rows
\* collapsed into their maximum)
_get_schema_version_rows(d) ==
    IF Len(d.schema_version) = 1 THEN d
    ELSE [ d EXCEPT !.schema_version = << _get_schema_version(d) >> ]

\* _set_schema_version
_set_schema_version(d, version) == [ d EXCEPT !.schema_version = << version >> ]

\* the loop of _migrate from `target` on; `applied` the versions applied so far
RECURSIVE apply_migrations(_, _, _)
apply_migrations(d, target, applied) ==
    IF target > LATEST_SCHEMA_VERSION THEN [ db |-> d, applied |-> applied ]
    ELSE apply_migrations(
             _set_schema_version([ d EXCEPT !.tables = @ \cup MIGRATIONS[target].tables ],
                                 MIGRATIONS[target].version),
             target + 1, Append(applied, target))

\* _migrate (the version is read again inside the transaction)
_migrate(d, current_version) ==
    apply_migrations(_get_schema_version_rows(d), _get_schema_version(d) + 1, <<>>)

\* an ensure_db that migrates whatever version it finds
ensure_db_always_migrating(d) ==
    LET d1 == _get_schema_version_rows(_ensure_schema_version_table(d))
    IN apply_migrations(d1, 1, <<>>)

\* ensure_db: the database it leaves and the migrations it applied
ensure_db(d) ==
    LET d1 == _ensure_schema_version_table(d)
        current == _get_schema_version(d1)
        d2 == _get_schema_version_rows(d1)
    IN IF current < LATEST_SCHEMA_VERSION THEN _migrate(d2, current)
       ELSE [ db |-> d2, applied |-> <<>> ]

(***************************************************************************)
(* lib/kiln_db.py: reading samples back.  An argument that is None is      *)
(* NoneTs here; a row's state_json is the JSON text json.dumps made of the *)
(* state and json.loads gives the state back.                              *)
(***************************************************************************)
Min(a, b) == IF a < b THEN a ELSE b

\* limit_i of list_session_samples
limit_i(limit) == IF limit <= 0 THEN 500 ELSE IF limit > 5000 THEN 5000 ELSE limit

\* ORDER BY t ASC
RECURSIVE order_by_t(_)
order_by_t(rows) ==
    IF rows = {} THEN <<>>
    ELSE LET r == CHOOSE r \in rows : \A q \in rows : r.t <= q.t
         IN <<r>> \o order_by_t(rows \ {r})

\* a list_session_samples whose bounds are exclusive (t > from_t, t < to_t)
list_session_samples_exclusive(d, session_id, from_t, to_t, limit) ==
    LET rows == { r \in d.samples :
                    /\ r.session_id = session_id
                    /\ from_t # NoneTs => r.t > from_t
                    /\ to_t # NoneTs => r.t < to_t }
        ordered == order_by_t(rows)
    IN [ i \in 1..Min(limit_i(limit), Len(ordered)) |->
           [ t |-> ordered[i].t, state |-> ordered[i].state ] ]

\* list_session_samples
list_session_samples(d, session_id, from_t, to_t, limit) ==
    LET rows == { r \in d.samples :
                    /\ r.session_id = session_id
                    /\ from_t # NoneTs => r.t >= from_t
                    /\ to_t # NoneTs => r.t <= to_t }
        ordered == order_by_t(rows)
    IN [ i \in 1..Min(limit_i(limit), Len(ordered)) |->
           [ t |-> ordered[i].t, state |-> ordered[i].state ] ]

(***************************************************************************)
(* lib/oven.py: class PID                                                  *)
(***************************************************************************)
\* PID.__init__
PID(t) == [ iterm |-> 0, lastErr |-> 0, lastNow |-> t, out |-> 0 ]

Clamp(lo, x, hi) == IF x < lo THEN lo ELSE IF x > hi THEN hi ELSE x

\* a compute without the floor at 0 (active cooling)
compute_with_cooling(pid, setpoint, ispoint, t) ==
    LET timeDelta == IF t > pid.lastNow THEN t - pid.lastNow ELSE 1
        error == setpoint - ispoint
        iterm == pid.iterm + (error * timeDelta) \div pid_ki
        dErr == (error - pid.lastErr) \div timeDelta
        output == Clamp(0 - window_size,
                        pid_kp * error + iterm + pid_kd * dErr, window_size)
    IN IF error < 0 - pid_control_window
       THEN [ pid EXCEPT !.lastErr = error, !.lastNow = t, !.out = 0 ]
       ELSE IF error > pid_control_window
       THEN [ pid EXCEPT !.lastErr = error, !.lastNow = t, !.out = 100 ]
       ELSE [ iterm |-> iterm, lastErr |-> error, lastNow |-> t, out |-> output ]

\* a compute that accumulates the integral term outside the window too
compute_integrating_always(pid, setpoint, ispoint, t) ==
    LET timeDelta == IF t > pid.lastNow THEN t - pid.lastNow ELSE 1
        error == setpoint - ispoint
        iterm == pid.iterm + (error * timeDelta) \div pid_ki
        dErr == (error - pid.lastErr) \div timeDelta
        output == Clamp(0 - window_size,
                        pid_kp * error + iterm + pid_kd * dErr, window_size)
    IN IF error < 0 - pid_control_window
       THEN [ iterm |-> iterm, lastErr |-> error, lastNow |-> t, out |-> 0 ]
       ELSE IF error > pid_control_window
       THEN [ iterm |-> iterm, lastErr |-> error, lastNow |-> t, out |-> 100 ]
       ELSE [ iterm |-> iterm, lastErr |-> error, lastNow |-> t,
              out |-> IF output < 0 THEN 0 ELSE output ]

\* PID.compute: the new PID state, `out` the duty in percent.  The clock has a
\* resolution of one second here; the code's timeDelta is positive, so a delta
\* below the resolution counts as one second.
compute(pid, setpoint, ispoint, t) ==
    LET timeDelta == IF t > pid.lastNow THEN t - pid.lastNow ELSE 1
        error == setpoint - ispoint
        iterm == pid.iterm + (error * timeDelta) \div pid_ki
        dErr == (error - pid.lastErr) \div timeDelta
        output == Clamp(0 - window_size,
                        pid_kp * error + iterm + pid_kd * dErr, window_size)
    IN IF error < 0 - pid_control_window
       THEN [ pid EXCEPT !.lastErr = error, !.lastNow = t, !.out = 0 ]
       ELSE IF error > pid_control_window
       THEN [ pid EXCEPT !.lastErr = error, !.lastNow = t, !.out = 100 ]
       ELSE [ iterm |-> iterm, lastErr |-> error, lastNow |-> t,
              out |-> IF output < 0 THEN 0 ELSE output ]

(***************************************************************************)
(* lib/oven.py: class Oven.  An operator takes the world `w` (the Oven     *)
(* object `o`, the store `db`, the restart state file `file`, the reading  *)
(* `sensor` that board.temp_sensor holds while the handler runs and        *)
(* `calls`, the store calls the handler has made so far) and returns the   *)
(* world the method leaves.  `t` is the clock when the method runs and     *)
(* `fail` the set of store functions that raise during the handler.        *)
(***************************************************************************)
StoreFunctions == {"create_session", "stop_session", "add_session_sample"}

\* during one handler the store works, or every call to it raises
Failures == {{}, StoreFunctions}

Call(fn, sid, raised, t, label) ==
    [ fn |-> fn, session_id |-> sid, raised |-> raised, t |-> t, state |-> label ]

\* the corrected temperature: board.temp_sensor.temperature + config.thermocouple_offset
Temp(w) == w.sensor.temperature + thermocouple_offset

\* Oven.reset (and RealOven.reset: output.cool(0))
reset(w, t) ==
    [ w EXCEPT !.o.cost = 0, !.o.state = "IDLE", !.o.profile = None,
               !.o.start_time = 0, !.o.runtime = 0, !.o.totaltime = 0,
               !.o.target = 0, !.o.heat = 0, !.o.pid = PID(t),
               !.o.wall_start_ts = NoneTs, !.o.output = "LOW" ]

\* Oven._start_session_if_possible
_start_session_if_possible(w, t, fail) ==
    IF w.o.profile = None \/ w.o.active_session_id # None \/ ~cfg.sqlite_db_path
    THEN w
    ELSE IF "create_session" \in fail
    THEN [ w EXCEPT !.calls = Append(@, Call("create_session", None, TRUE, t, "")) ]
    ELSE [ w EXCEPT
             !.db = create_session(@, Profiles[w.o.profile].name, t, "RUNNING"),
             !.o.active_session_id = Len(w.db.sessions) + 1,
             !.calls = Append(@, Call("create_session", Len(w.db.sessions) + 1,
                                      FALSE, t, "")) ]

\* a _stop_session_if_possible that keeps the pointer when stop_session raises
_stop_session_or_keep_pointer(w, outcome, t, fail) ==
    LET sid == w.o.active_session_id
    IN IF sid = None THEN w
       ELSE IF ~cfg.sqlite_db_path THEN [ w EXCEPT !.o.active_session_id = None ]
       ELSE IF "stop_session" \in fail
       THEN [ w EXCEPT !.calls = Append(@, Call("stop_session", sid, TRUE, t, outcome)) ]
       ELSE [ w EXCEPT !.db = stop_session(@, sid, t, outcome),
                       !.o.active_session_id = None,
                       !.calls = Append(@, Call("stop_session", sid, FALSE, t, outcome)) ]

\* a _stop_session_if_possible that forgets the store and only drops the pointer
_drop_session_pointer(w, outcome, t, fail) ==
    [ w EXCEPT !.o.active_session_id = None ]

\* Oven._stop_session_if_possible
_stop_session_if_possible(w, outcome, t, fail) ==
    LET sid == w.o.active_session_id
    IN IF sid = None THEN w
       ELSE IF ~cfg.sqlite_db_path THEN [ w EXCEPT !.o.active_session_id = None ]
       ELSE IF "stop_session" \in fail
       THEN [ w EXCEPT !.o.active_session_id = None,
                       !.calls = Append(@, Call("stop_session", sid, TRUE, t, outcome)) ]
       ELSE [ w EXCEPT !.db = stop_session(@, sid, t, outcome),
                       !.o.active_session_id = None,
                       !.calls = Append(@, Call("stop_session", sid, FALSE, t, outcome)) ]

\* Oven._cancel_cooldown_capture
_cancel_cooldown_capture(w) ==
    [ w EXCEPT !.o.cooldown_session_id = None,
               !.o.cooldown_until_ts = NoneTs,
               !.o.cooldown_started_ts = NoneTs ]

\* Oven.stop_cooldown_capture: the value it returns
stop_cooldown_capture_returns(w, session_id) ==
    /\ w.o.cooldown_session_id # None
    /\ ~(session_id # None /\ session_id # w.o.cooldown_session_id)

\* Oven.stop_cooldown_capture without the comparison of ids
stop_cooldown_capture_of_any_id(w, session_id) ==
    IF w.o.cooldown_session_id # None
    THEN _cancel_cooldown_capture(w)
    ELSE w

\* Oven.stop_cooldown_capture
stop_cooldown_capture(w, session_id) ==
    IF stop_cooldown_capture_returns(w, session_id)
    THEN _cancel_cooldown_capture(w)
    ELSE w

Max(a, b) == IF a > b THEN a ELSE b

\* Oven.get_state (the fields the model follows)
get_state(w, t) ==
    [ cost |-> w.o.cost,
      runtime |-> w.o.runtime,
      elapsed |-> IF w.o.wall_start_ts # NoneTs THEN Max(0, t - w.o.wall_start_ts) ELSE 0,
      temperature |-> Temp(w),
      target |-> w.o.target,
      state |-> w.o.state,
      heat |-> w.o.heat,
      totaltime |-> w.o.totaltime,
      cooldown_active |-> w.o.cooldown_session_id # None,
      cooldown_elapsed |->
          IF w.o.cooldown_session_id # None /\ w.o.cooldown_started_ts # NoneTs
          THEN Max(0, t - w.o.cooldown_started_ts) ELSE 0,
      cooldown_session_id |-> w.o.cooldown_session_id,
      profile |-> w.o.profile,
      out |-> w.o.pid.out ]

\* a _persist_sample_if_possible that lets the exception of the store escape:
\* the thread that called it ends
_persist_sample_or_raise(w, session_id, state, t, fail) ==
    LET sid == IF session_id # None THEN session_id ELSE w.o.active_session_id
    IN IF sid = None \/ ~cfg.sqlite_db_path THEN w
       ELSE IF "add_session_sample" \in fail \/ add_session_sample_raises(w.db, sid)
       THEN [ w EXCEPT !.o.alive = FALSE,
                       !.calls =
                Append(@, Call("add_session_sample", sid, TRUE, t, state.state)) ]
       ELSE [ w EXCEPT !.db = add_session_sample(@, sid, state, t),
                       !.calls =
                Append(@, Call("add_session_sample", sid, FALSE, t, state.state)) ]

\* a _persist_sample_if_possible that stamps the row with the schedule time of
\* the state (runtime) where add_session_sample reads the wall clock
_persist_sample_at_runtime(w, session_id, state, t, fail) ==
    LET sid == IF session_id # None THEN session_id ELSE w.o.active_session_id
    IN IF sid = None \/ ~cfg.sqlite_db_path THEN w
       ELSE IF "add_session_sample" \in fail \/ add_session_sample_raises(w.db, sid)
       THEN [ w EXCEPT !.calls =
                Append(@, Call("add_session_sample", sid, TRUE, state.runtime,
                               state.state)) ]
       ELSE [ w EXCEPT !.db = add_session_sample(@, sid, state, state.runtime),
                       !.calls =
                Append(@, Call("add_session_sample", sid, FALSE, state.runtime,
                               state.state)) ]

\* Oven._persist_sample_if_possible
_persist_sample_if_possible(w, session_id, state, t, fail) ==
    LET sid == IF session_id # None THEN session_id ELSE w.o.active_session_id
    IN IF sid = None \/ ~cfg.sqlite_db_path THEN w
       ELSE IF "add_session_sample" \in fail \/ add_session_sample_raises(w.db, sid)
       THEN [ w EXCEPT !.calls =
                Append(@, Call("add_session_sample", sid, TRUE, t, state.state)) ]
       ELSE [ w EXCEPT !.db = add_session_sample(@, sid, state, t),
                       !.calls =
                Append(@, Call("add_session_sample", sid, FALSE, t, state.state)) ]

\* Oven._cooldown_capture_threshold
_cooldown_capture_threshold == IF cfg.temp_scale = "c" THEN THRESHOLD_C ELSE THRESHOLD_F

\* Oven._start_cooldown_capture
_start_cooldown_capture(w, session_id, now_ts) ==
    [ w EXCEPT !.o.cooldown_session_id = session_id,
               !.o.cooldown_until_ts = now_ts + COOLDOWN_CAP,
               !.o.cooldown_started_ts = now_ts ]

\* a tick that also stops at the threshold itself (temp <= threshold)
_cooldown_capture_tick_inclusive(w, t, fail) ==
    LET sid == w.o.cooldown_session_id
        until_ts == w.o.cooldown_until_ts
        st == get_state(w, t)
        w1 == _persist_sample_if_possible(w, sid, st, t, fail)
    IN IF sid = None \/ until_ts = NoneTs THEN w
       ELSE IF t >= until_ts THEN _cancel_cooldown_capture(w)
       ELSE IF st.temperature <= _cooldown_capture_threshold
            THEN _cancel_cooldown_capture(w1)
            ELSE w1

\* a tick that still samples at the deadline itself (now_ts > until_ts)
_cooldown_capture_tick_late(w, t, fail) ==
    LET sid == w.o.cooldown_session_id
        until_ts == w.o.cooldown_until_ts
        st == get_state(w, t)
        w1 == _persist_sample_if_possible(w, sid, st, t, fail)
    IN IF sid = None \/ until_ts = NoneTs THEN w
       ELSE IF t > until_ts THEN _cancel_cooldown_capture(w)
       ELSE IF st.temperature < _cooldown_capture_threshold
            THEN _cancel_cooldown_capture(w1)
            ELSE w1

(***************************************************************************)
(* C39: cooldown capture ends.                                             *)
(***************************************************************************)
\* a tick that ignores the 48 hour cap
_cooldown_capture_tick_without_cap(w, t, fail) ==
    LET sid == w.o.cooldown_session_id
        until_ts == w.o.cooldown_until_ts
        st == get_state(w, t)
        w1 == _persist_sample_if_possible(w, sid, st, t, fail)
    IN IF sid = None \/ until_ts = NoneTs THEN w
       ELSE IF st.temperature < _cooldown_capture_threshold
            THEN _cancel_cooldown_capture(w1)
            ELSE w1

\* Oven._cooldown_capture_tick
_cooldown_capture_tick(w, t, fail) ==
    LET sid == w.o.cooldown_session_id
        until_ts == w.o.cooldown_until_ts
        st == get_state(w, t)
        w1 == _persist_sample_if_possible(w, sid, st, t, fail)
    IN IF sid = None \/ until_ts = NoneTs THEN w
       ELSE IF t >= until_ts THEN _cancel_cooldown_capture(w)
       ELSE IF st.temperature < _cooldown_capture_threshold
            THEN _cancel_cooldown_capture(w1)
            ELSE w1

\* the four checks of Oven.run_profile
sensor_fault(w) ==
    \/ w.sensor.noConnection
    \/ w.sensor.shortToGround
    \/ w.sensor.shortToVCC
    \/ w.sensor.unknownError

\* a run_profile that leaves a cooldown capture in progress
run_profile_from_keeping_capture(w, profile, startat_seconds, t, fail) ==
    LET w2 == _stop_session_if_possible(w, "ABORTED", t, fail)
        w3 == reset(w2, t)
        w4 == [ w3 EXCEPT !.o.runtime = startat_seconds,
                          !.o.start_time = t - startat_seconds,
                          !.o.wall_start_ts = t,
                          !.o.profile = profile,
                          !.o.totaltime = get_duration(profile),
                          !.o.state = "RUNNING" ]
    IN IF sensor_fault(w) THEN w3
       ELSE _start_session_if_possible(w4, t, fail)

\* Oven.run_profile from `startat * 60` on, given in seconds
run_profile_from(w, profile, startat_seconds, t, fail) ==
    LET w1 == _cancel_cooldown_capture(w)
        w2 == _stop_session_if_possible(w1, "ABORTED", t, fail)
        w3 == reset(w2, t)
        w4 == [ w3 EXCEPT !.o.runtime = startat_seconds,
                          !.o.start_time = t - startat_seconds,
                          !.o.wall_start_ts = t,
                          !.o.profile = profile,
                          !.o.totaltime = get_duration(profile),
                          !.o.state = "RUNNING" ]
    IN IF sensor_fault(w) THEN w3
       ELSE _start_session_if_possible(w4, t, fail)

\* a run_profile that ignores startat
run_profile_from_the_start(w, profile, startat, t, fail) ==
    run_profile_from(w, profile, 0, t, fail)

\* Oven.run_profile(profile, startat), startat in minutes
run_profile(w, profile, startat, t, fail) ==
    run_profile_from(w, profile, startat * 60, t, fail)

\* Oven.save_state
save_state(w, t) ==
    [ w EXCEPT !.file = [ exists |-> TRUE, mtime |-> t, state |-> get_state(w, t) ] ]

\* Oven.save_automatic_restart_state
save_automatic_restart_state(w, t) ==
    IF ~cfg.automatic_restarts THEN w ELSE save_state(w, t)

\* an abort_run that leaves a cooldown capture in progress
abort_run_keeping_capture(w, outcome, t, fail) ==
    LET w2 == _stop_session_if_possible(w, outcome, t, fail)
        w3 == reset(w2, t)
    IN save_automatic_restart_state(w3, t)

\* Oven.abort_run
abort_run(w, outcome, t, fail) ==
    LET w1 == _cancel_cooldown_capture(w)
        w2 == _stop_session_if_possible(w1, outcome, t, fail)
        w3 == reset(w2, t)
    IN save_automatic_restart_state(w3, t)

\* Oven.kiln_must_catch_up: which of its branches the cycle takes
too_cold(w) == w.o.target - Temp(w) > pid_control_window
too_hot(w) == Temp(w) - w.o.target > pid_control_window

skip_to_time(w) == find_time_for_temperature(w.o.profile, Temp(w), w.o.runtime)

\* a warmup-skip that does not look at the threshold
warmup_skip_at_any_temperature(w) ==
    /\ too_hot(w)
    /\ skip_to_time(w) # NoneTs
    /\ skip_to_time(w) > w.o.runtime

warmup_skip(w) ==
    /\ too_hot(w)
    /\ cfg.warmup_skip_threshold > 0
    /\ Temp(w) < cfg.warmup_skip_threshold
    /\ w.o.target < cfg.warmup_skip_threshold
    /\ skip_to_time(w) # NoneTs
    /\ skip_to_time(w) > w.o.runtime

\* a kiln_must_catch_up that resets the PID on every warp of the schedule
kiln_must_catch_up_resetting(w, t) ==
    IF ~cfg.kiln_must_catch_up THEN w
    ELSE IF too_cold(w)
         THEN [ w EXCEPT !.o.start_time = t - w.o.runtime,
                         !.o.pid.iterm = 0, !.o.pid.lastErr = 0 ]
    ELSE IF warmup_skip(w)
         THEN [ w EXCEPT !.o.start_time = t - skip_to_time(w),
                         !.o.pid.iterm = 0, !.o.pid.lastErr = 0 ]
    ELSE IF too_hot(w)
         THEN [ w EXCEPT !.o.start_time = t - w.o.runtime,
                         !.o.pid.iterm = 0, !.o.pid.lastErr = 0 ]
    ELSE w

\* a kiln_must_catch_up that never waits: it leaves the start reference alone
\* unless warmup-skip applies
kiln_must_catch_up_never_waiting(w, t) ==
    IF ~cfg.kiln_must_catch_up THEN w
    ELSE IF warmup_skip(w)
         THEN [ w EXCEPT !.o.start_time = t - skip_to_time(w),
                         !.o.pid.iterm = 0, !.o.pid.lastErr = 0 ]
    ELSE w

\* a kiln_must_catch_up that moves the wall-clock start of the run together
\* with the start reference
kiln_must_catch_up_shifting_wall_start(w, t) ==
    IF ~cfg.kiln_must_catch_up THEN w
    ELSE IF too_cold(w)
         THEN [ w EXCEPT !.o.start_time = t - w.o.runtime,
                         !.o.wall_start_ts = t - w.o.runtime ]
    ELSE IF warmup_skip(w)
         THEN [ w EXCEPT !.o.start_time = t - skip_to_time(w),
                         !.o.wall_start_ts = t - skip_to_time(w),
                         !.o.pid.iterm = 0, !.o.pid.lastErr = 0 ]
    ELSE IF too_hot(w)
         THEN [ w EXCEPT !.o.start_time = t - w.o.runtime,
                         !.o.wall_start_ts = t - w.o.runtime ]
    ELSE w

\* Oven.kiln_must_catch_up
kiln_must_catch_up(w, t) ==
    IF ~cfg.kiln_must_catch_up THEN w
    ELSE IF too_cold(w) THEN [ w EXCEPT !.o.start_time = t - w.o.runtime ]
    ELSE IF warmup_skip(w)
         THEN [ w EXCEPT !.o.start_time = t - skip_to_time(w),
                         !.o.pid.iterm = 0, !.o.pid.lastErr = 0 ]
    ELSE IF too_hot(w) THEN [ w EXCEPT !.o.start_time = t - w.o.runtime ]
    ELSE w

\* Oven.update_runtime
update_runtime(w, t) ==
    [ w EXCEPT !.o.runtime = IF t - w.o.start_time < 0 THEN 0 ELSE t - w.o.start_time ]

\* Oven.update_target_temp; a TypeError raised by get_target_temperature is not
\* caught anywhere in Oven.run and ends the control thread
update_target_temp(w) ==
    IF target_raises(w.o.profile, w.o.runtime)
    THEN [ w EXCEPT !.o.alive = FALSE ]
    ELSE [ w EXCEPT !.o.target = get_target_temperature(w.o.profile, w.o.runtime) ]

\* SimulatedOven.heat_then_cool and RealOven.heat_then_cool
heat_then_cool(w, t) ==
    LET pid == compute(w.o.pid, w.o.target, Temp(w), t)
        heat_on == time_step * pid.out
        heat_off == time_step * (100 - pid.out)
    IN [ w EXCEPT !.o.pid = pid,
                  !.o.heat = IF heat_on > 0
                             THEN (IF cfg.simulate THEN heat_on ELSE 100)
                             ELSE 0,
                  !.o.output = IF cfg.simulate THEN @
                               ELSE IF heat_off > 0 THEN "LOW"
                               ELSE IF heat_on > 0 THEN "HIGH" ELSE @ ]

\* Oven.update_cost
update_cost(w) ==
    [ w EXCEPT !.o.cost = @ + (IF w.o.heat # 0 THEN w.o.heat ELSE 0) ]

\* the conditions of Oven.reset_if_emergency
temp_too_high(w) == Temp(w) >= emergency_shutoff_temp
too_many_errors(w) == w.sensor.bad_percent > BAD_PERCENT_LIMIT

\* Oven.reset_if_emergency
reset_if_emergency(w, t, fail) ==
    LET w1 == IF temp_too_high(w) /\ ~cfg.ignore_temp_too_high
              THEN abort_run(w, "ERROR", t, fail) ELSE w
        w2 == IF w.sensor.noConnection /\ ~cfg.ignore_lost_connection_tc
              THEN abort_run(w1, "ERROR", t, fail) ELSE w1
        w3 == IF w.sensor.unknownError /\ ~cfg.ignore_unknown_tc_error
              THEN abort_run(w2, "ERROR", t, fail) ELSE w2
    IN IF too_many_errors(w) /\ ~cfg.ignore_too_many_tc_errors
       THEN abort_run(w3, "ERROR", t, fail) ELSE w3

\* a completion handled as a user abort
schedule_end_as_abort(w, t, fail) ==
    IF w.o.runtime > w.o.totaltime THEN abort_run(w, "ABORTED", t, fail) ELSE w

\* Oven.reset_if_schedule_ended
reset_if_schedule_ended(w, t, fail) ==
    LET sid == w.o.active_session_id
        w1 == IF sid # None /\ cfg.sqlite_db_path
              THEN IF "stop_session" \in fail
                   THEN [ w EXCEPT !.calls =
                            Append(@, Call("stop_session", sid, TRUE, t, "COMPLETED")) ]
                   ELSE [ w EXCEPT !.db = stop_session(@, sid, t, "COMPLETED"),
                                   !.calls =
                            Append(@, Call("stop_session", sid, FALSE, t, "COMPLETED")) ]
              ELSE w
        w2 == IF sid # None THEN _start_cooldown_capture(w1, sid, t) ELSE w1
        w3 == [ w2 EXCEPT !.o.active_session_id = None ]
    IN IF w.o.runtime > w.o.totaltime
       THEN save_automatic_restart_state(reset(w3, t), t)
       ELSE w

\* Oven.state_file_is_old
state_file_is_old(w, t) ==
    ~(w.file.exists /\ t - w.file.mtime <= automatic_restart_window * 60)

\* a should_i_automatic_restart that does not look at the age of the file
should_i_restart_at_any_age(w, t) ==
    /\ cfg.automatic_restarts
    /\ w.file.exists
    /\ w.file.state.state = "RUNNING"

\* Oven.should_i_automatic_restart
should_i_automatic_restart(w, t) ==
    /\ cfg.automatic_restarts
    /\ ~state_file_is_old(w, t)
    /\ w.file.state.state = "RUNNING"

\* Oven.automatic_restart (the profile is read back by its name)
automatic_restart(w, t, fail) ==
    LET d == w.file.state
        w1 == run_profile_from(w, d.profile, d.runtime, t, fail)
    IN [ w1 EXCEPT !.o.cost = d.cost ]

(***************************************************************************)
(* The state after construction.                                           *)
(***************************************************************************)
\* Oven.__init__ (which ends with reset()); the control thread is started
InitOven ==
    [ cost |-> 0, state |-> "IDLE", profile |-> None, start_time |-> 0,
      runtime |-> 0, totaltime |-> 0, target |-> 0, heat |-> 0, pid |-> PID(0),
      wall_start_ts |-> NoneTs,
      active_session_id |-> None,
      cooldown_session_id |-> None,
      cooldown_until_ts |-> NoneTs,
      cooldown_started_ts |-> NoneTs,
      output |-> "LOW",
      alive |-> TRUE ]

\* TempSensor.__init__
InitSensor == Reading(0, FALSE, FALSE, FALSE, FALSE, 0)

\* the store after ensure_db
InitDb == ensure_db(FreshDb).db

\* a state file as Oven.save_state writes it
Snapshot(state, profile, runtime, cost) ==
    [ cost |-> cost, runtime |-> runtime, elapsed |-> runtime, temperature |-> 70,
      target |-> 0, state |-> state, heat |-> 0,
      totaltime |-> IF profile = None THEN 0 ELSE get_duration(profile),
      cooldown_active |-> FALSE, cooldown_elapsed |-> 0,
      cooldown_session_id |-> None, profile |-> profile, out |-> 0 ]

NoFile == [ exists |-> FALSE, mtime |-> 0, state |-> Snapshot("IDLE", None, 0, 0) ]

\* what an earlier process may have left behind: nothing, the snapshot of a run
\* that was interrupted (just inside and just outside the restart window) or
\* the snapshot of an idle oven
InitialFiles ==
    { NoFile,
      [ exists |-> TRUE, mtime |-> 0 - automatic_restart_window * 60,
        state |-> Snapshot("RUNNING", 1, 2, 300) ],
      [ exists |-> TRUE, mtime |-> 0 - automatic_restart_window * 60 - 1,
        state |-> Snapshot("RUNNING", 1, 2, 300) ],
      [ exists |-> TRUE, mtime |-> 0 - 60, state |-> Snapshot("IDLE", None, 0, 0) ] }

\* the world a handler starts from, the sensor thread having published r
World(r) == [ o |-> oven, db |-> db, file |-> state_file, sensor |-> r, calls |-> <<>> ]

\* `last`: the operation that led here, the world it started from (pre), the
\* worlds a RUNNING cycle passed through before its emergency checks (mid) and
\* before its completion check (late), the store calls it made, the clock when
\* it made its checks, its arguments and the value it returned
Last(op, pre, mid, late, post, t, profile, startat, outcome, session_id, ret) ==
    [ op |-> op, pre |-> pre, mid |-> mid, late |-> late, calls |-> post.calls,
      t |-> t, profile |-> profile, startat |-> startat,
      outcome |-> outcome, session_id |-> session_id, ret |-> ret ]

Install(w) ==
    /\ oven' = w.o
    /\ db' = w.db
    /\ state_file' = w.file
    /\ sensor' = w.sensor

\* the control thread and two threads of the web server
Threads == {"loop", "api1", "api2"}
NoThread == "none"

\* a thread outside every handler: `op` and `ret` are the handler it ran last
\* and what that returned, `session_id` its argument, `sid`, `until_ts` and
\* `st` its local variables, `seen` the capture that was active when it was
\* called and `cleared` the capture its handler cleared; `heat_on` and
\* `heat_off` are the locals of heat_then_cool, `interrupted` tells that
\* another thread's handler ran since the control thread began its iteration;
\* `profile` and `created` are the profile a web thread gave to run_profile
\* and the session that call created
IdleThread ==
    [ pc |-> "idle", op |-> "", session_id |-> None, outcome |-> "", ret |-> FALSE,
      sid |-> None, until_ts |-> NoneTs, st |-> Snapshot("IDLE", None, 0, 0),
      seen |-> None, cleared |-> None,
      heat_on |-> 0, heat_off |-> 0, interrupted |-> FALSE,
      profile |-> None, created |-> None ]

\* the process starts on one of the databases `dbs`
InitOver(configs, dbs) ==
    /\ cfg \in configs
    /\ sensor = InitSensor
    /\ now = 0
    /\ oven = InitOven
    /\ db \in dbs
    /\ state_file \in (IF cfg.automatic_restarts THEN InitialFiles ELSE {NoFile})
    /\ steps = 0
    /\ lock = NoThread
    /\ threads = [ th \in Threads |-> IdleThread ]
    /\ cancellations = <<>>
    /\ last = Last("init", World(sensor), World(sensor), World(sensor), World(sensor),
                   0, None, 0, "", None, FALSE)

\* the process starts after ensure_db
InitWith(configs) == InitOver(configs, {InitDb})

\* no thread is inside a handler
Quiet == lock = NoThread /\ \A th \in Threads : threads[th].pc = "idle"

\* one more operation, of at most `limit`
Count(limit) ==
    /\ steps < limit
    /\ steps' = steps + 1

\* one more operation that runs from its call to its return with no other
\* thread inside a handler
Step(limit) ==
    /\ Count(limit)
    /\ Quiet
    /\ UNCHANGED <<lock, threads, cancellations>>

(***************************************************************************)
(* Time passes while nothing runs (the jump to the end of the cooldown     *)
(* cap).                                                                   *)
(***************************************************************************)
Delays == {COOLDOWN_CAP - time_step}

Advance(limit) ==
    \E d \in Delays :
        LET w == World(sensor)
        IN /\ Step(limit)
           /\ now + d <= MaxNow
           /\ now' = now + d
           /\ last' = Last("advance", w, w, w, w, now + d, None, 0, "", None, FALSE)
           /\ UNCHANGED <<cfg, sensor, oven, db, state_file>>

(***************************************************************************)
(* The callers of the Oven object (web API).  A handler that reads the     *)
(* sensor sees the reading r the sensor thread published last.  Each       *)
(* action draws its inputs from the sets it is given; `runs` are pairs of  *)
(* a profile and a start in minutes.                                       *)
(***************************************************************************)
RunProfile(limit, readings, runs, failures) ==
    \E r \in readings, run \in runs, fail \in failures :
        LET w == run_profile(World(r), run[1], run[2], now, fail)
        IN /\ Step(limit)
           /\ Len(w.db.sessions) <= MaxSessions
           /\ Install(w)
           /\ last' = Last("run_profile", World(r), w, w, w, now, run[1], run[2], "",
                           None, FALSE)
           /\ UNCHANGED <<cfg, now>>

AbortRun(limit, outcomes, failures) ==
    \E outcome \in outcomes, fail \in failures :
        LET w == abort_run(World(sensor), outcome, now, fail)
        IN /\ Step(limit)
           /\ Install(w)
           /\ last' = Last("abort_run", World(sensor), w, w, w, now, None, 0, outcome,
                           None, FALSE)
           /\ UNCHANGED <<cfg, now>>

StopCooldownCapture(limit, session_ids) ==
    \E session_id \in session_ids :
        LET w == stop_cooldown_capture(World(sensor), session_id)
        IN /\ Step(limit)
           /\ Install(w)
           /\ last' = Last("stop_cooldown_capture", World(sensor), w, w, w, now, None,
                           0, "", session_id,
                           stop_cooldown_capture_returns(World(sensor), session_id))
           /\ UNCHANGED <<cfg, now>>

(***************************************************************************)
(* Oven.run: one iteration of the control thread.                          *)
(***************************************************************************)
\* the RUNNING branch up to update_target_temp
cycle_head(w, t, gap) ==
    update_target_temp(
        update_runtime(
            kiln_must_catch_up(
                save_automatic_restart_state(update_cost(w), t), t), t + gap))

\* heat_then_cool (which takes time_step) and the sample of the cycle
cycle_mid(w, t, fail) ==
    LET w1 == heat_then_cool(w, t)
    IN _persist_sample_if_possible(w1, None, get_state(w1, t + time_step),
                                   t + time_step, fail)

(***************************************************************************)
(* C35: an emergency in the cycle in which the schedule ends.              *)
(***************************************************************************)
\* the order of Oven.run reversed: reset_if_schedule_ended first
running_cycle_completing_first(w, t, gap, fail) ==
    LET t2 == t + gap + time_step
        head == cycle_head(w, t, gap)
        late == reset_if_schedule_ended(cycle_mid(head, t + gap, fail), t2, fail)
    IN IF head.o.alive THEN reset_if_emergency(late, t2, fail) ELSE head

\* Oven.run, RUNNING branch: one whole iteration
running_cycle(w, t, gap, fail) ==
    LET t2 == t + gap + time_step
        head == cycle_head(w, t, gap)
        late == reset_if_emergency(cycle_mid(head, t + gap, fail), t2, fail)
    IN IF head.o.alive THEN reset_if_schedule_ended(late, t2, fail) ELSE head

\* `gap`: the seconds that pass between the clock read of kiln_must_catch_up
\* and the one of update_runtime
RunningCycle(limit, readings, gaps, failures) ==
    \E r \in readings, gap \in gaps, fail \in failures :
        LET t2 == now + gap + time_step
            head == cycle_head(World(r), now, gap)
            mid == cycle_mid(head, now + gap, fail)
            late == reset_if_emergency(mid, t2, fail)
            w == running_cycle(World(r), now, gap, fail)
        IN /\ Step(limit)
           /\ oven.alive /\ oven.state = "RUNNING"
           /\ t2 <= MaxNow
           /\ Install(w)
           /\ now' = (IF head.o.alive THEN t2 ELSE now + gap)
           /\ last' = Last("running_cycle", World(r),
                           IF head.o.alive THEN mid ELSE head,
                           IF head.o.alive THEN late ELSE head,
                           w, t2, None, 0, "", None, FALSE)
           /\ UNCHANGED cfg

IdleCycle(limit, readings, failures) ==
    \E r \in readings, fail \in failures :
        LET restart == should_i_automatic_restart(World(r), now)
            w1 == IF restart THEN automatic_restart(World(r), now, fail) ELSE World(r)
            t1 == IF restart THEN now + 1 ELSE now
            w == _cooldown_capture_tick(w1, t1, fail)
            t2 == t1 + (IF w.o.cooldown_session_id # None THEN time_step ELSE 1)
        IN /\ Step(limit)
           /\ oven.alive /\ oven.state = "IDLE"
           /\ t2 <= MaxNow
           /\ Len(w.db.sessions) <= MaxSessions
           /\ Install(w)
           /\ now' = t2
           /\ last' = Last("idle_cycle", World(r), w1, w1, w, t1, None, 0, "", None,
                           restart)
           /\ UNCHANGED cfg


(***************************************************************************)
(* Direct callers of lib/kiln_db.py (the web API and the tests call the    *)
(* store without the oven).                                                *)
(***************************************************************************)
Outcomes == {"COMPLETED", "ABORTED", "ERROR"}

WorldOf(d) == [ World(sensor) EXCEPT !.db = d ]

CreateSession(limit, profiles) ==
    \E p \in profiles :
        LET d == create_session(db, Profiles[p].name, now, "RUNNING")
        IN /\ Step(limit)
           /\ Len(db.sessions) < MaxSessions
           /\ db' = d
           /\ last' = Last("create_session", World(sensor), WorldOf(d), WorldOf(d),
                           WorldOf(d), now, p, 0, "RUNNING", Len(d.sessions), FALSE)
           /\ UNCHANGED <<cfg, sensor, now, oven, state_file>>

StopSession(limit, session_ids, outcomes) ==
    \E session_id \in session_ids, outcome \in outcomes :
        LET d == stop_session(db, session_id, now, outcome)
        IN /\ Step(limit)
           /\ db' = d
           /\ last' = Last("stop_session", World(sensor), WorldOf(d), WorldOf(d),
                           WorldOf(d), now, None, 0, outcome, session_id,
                           stop_session_updated(db, session_id))
           /\ UNCHANGED <<cfg, sensor, now, oven, state_file>>

\* a second passes
Clock(limit) ==
    /\ Count(limit)
    /\ UNCHANGED <<lock, threads, cancellations>>
    /\ now < Horizon
    /\ now' = now + 1
    /\ last' = Last("clock", World(sensor), World(sensor), World(sensor),
                    World(sensor), now + 1, None, 0, "", None, FALSE)
    /\ UNCHANGED <<cfg, sensor, oven, db, state_file>>

(***************************************************************************)
(* The readings and runs the specifications draw from.  Profile 1 lasts    *)
(* one minute: started at minute 2 it is past its end, started at minute 1 *)
(* it is exactly at its end.                                               *)
(***************************************************************************)
Cold == Good(40)
Warm == Good(190)
TooHot == Good(emergency_shutoff_temp - thermocouple_offset)
Disconnected == Reading(40, TRUE, FALSE, FALSE, FALSE, 0)
Unknown == Reading(40, FALSE, FALSE, FALSE, TRUE, 0)
AtBadLimit == Reading(40, FALSE, FALSE, FALSE, FALSE, BAD_PERCENT_LIMIT)
Degraded == Reading(40, FALSE, FALSE, FALSE, FALSE, BAD_PERCENT_LIMIT + 10)

MainReadings == {Cold, Warm, Disconnected}
EmergencyReadings == {Cold, TooHot, Disconnected, Unknown, AtBadLimit, Degraded}
\* just below the cooldown threshold, at it, and far above it
CooldownReadings ==
    { Good(_cooldown_capture_threshold - thermocouple_offset - 1),
      Good(_cooldown_capture_threshold - thermocouple_offset),
      TooHot }

MainRuns == { <<1, 2>>, <<2, 0>> }
EmergencyRuns == { <<1, 1>>, <<2, 0>> }
NoFailure == { {} }

(***************************************************************************)
(* Spec: the session lifecycle, the store failing or not.                  *)
(***************************************************************************)
Init == InitWith({BaseConfig, RestartConfig})

Next ==
    \/ Advance(MaxSteps)
    \/ RunProfile(MaxSteps, MainReadings, MainRuns, Failures)
    \/ AbortRun(MaxSteps, {"ABORTED", "ERROR"}, Failures)
    \/ StopCooldownCapture(MaxSteps, {None} \cup (1..MaxSessions))
    \/ RunningCycle(MaxSteps, MainReadings, {0}, Failures)
    \/ IdleCycle(MaxSteps, MainReadings, Failures)

Spec == Init /\ [][Next]_vars

(***************************************************************************)
(* SpecReliable: the session lifecycle over a store that never fails.      *)
(***************************************************************************)
NextReliable ==
    \/ Advance(MaxSteps)
    \/ RunProfile(MaxSteps, MainReadings, MainRuns, NoFailure)
    \/ AbortRun(MaxSteps, {"ABORTED", "ERROR"}, NoFailure)
    \/ StopCooldownCapture(MaxSteps, {None} \cup (1..MaxSessions))
    \/ RunningCycle(MaxSteps, MainReadings, {0}, NoFailure)
    \/ IdleCycle(MaxSteps, MainReadings, NoFailure)

SpecReliable == Init /\ [][NextReliable]_vars

(***************************************************************************)
(* SpecEmergency: runs under every combination of the four ignore flags,   *)
(* the sensor reporting each emergency condition, over a store that never  *)
(* fails.                                                                  *)
(***************************************************************************)
InitEmergency == InitWith(IgnoreConfigs)

NextEmergency ==
    \/ RunProfile(MaxEmergencySteps, {Cold}, EmergencyRuns, NoFailure)
    \/ RunningCycle(MaxEmergencySteps, EmergencyReadings, {0, 1}, NoFailure)

SpecEmergency == InitEmergency /\ [][NextEmergency]_vars

(***************************************************************************)
(* SpecCooldown: one completed run and the cooldown capture that follows,  *)
(* in both temperature scales, up to and past the 48 hour cap.             *)
(***************************************************************************)
InitCooldown == InitWith({BaseConfig, CelsiusConfig})

NextCooldown ==
    \/ RunProfile(MaxCooldownSteps, {Cold}, { <<1, 2>> }, NoFailure)
    \/ RunningCycle(MaxCooldownSteps, {Warm}, {0}, NoFailure)
    \/ IdleCycle(MaxCooldownSteps, CooldownReadings, Failures)
    \/ Advance(MaxCooldownSteps)

SpecCooldown == InitCooldown /\ [][NextCooldown]_vars

(***************************************************************************)
(* SpecDb: the store alone.                                                *)
(***************************************************************************)
InitDbOnly == InitWith({BaseConfig})

NextDb ==
    \/ CreateSession(MaxDbSteps, ProfileIds)
    \/ StopSession(MaxDbSteps, 1..(MaxSessions + 1), Outcomes)
    \/ Clock(MaxDbSteps)

SpecDb == InitDbOnly /\ [][NextDb]_vars

(***************************************************************************)
(* SpecControl: the control loop on a schedule it follows, falls behind    *)
(* and runs ahead of, with and without warmup-skip, with a store that      *)
(* fails or not and with no store at all.                                  *)
(***************************************************************************)
\* readings inside the control window of the first target (70), below it and
\* above it
NearTarget == Good(58)
Ahead == Good(70)
ControlReadings == {NearTarget, Cold, Ahead}

InitControl == InitWith({BaseConfig, WarmupSkipConfig, NoStoreConfig})

NextControl ==
    \/ RunProfile(MaxControlSteps, {Cold}, MainRuns, Failures)
    \/ AbortRun(MaxControlSteps, {"ABORTED"}, Failures)
    \/ RunningCycle(MaxControlSteps, ControlReadings, {0}, Failures)
    \/ IdleCycle(MaxControlSteps, {Cold}, Failures)

SpecControl == InitControl /\ [][NextControl]_vars

(***************************************************************************)
(* The handlers statement by statement, for the threads that share the     *)
(* three cooldown fields.  A thread inside a handler stands at `pc`; the   *)
(* statements of the other threads may run between any two of its own.     *)
(* Every access to the cooldown fields in lib/oven.py is made inside       *)
(* `with self._session_lock`.                                              *)
(***************************************************************************)
ApiThreads == Threads \ {"loop"}

\* a lock that never makes a thread wait
lock_is_ignored(lk) == TRUE

\* threading.Lock: acquire() goes through when no thread holds the lock
lock_is_free(lk) == lk = NoThread

\* the record of one statement, w the world it left
Statement(name, w) ==
    Last(name, World(sensor), w, w, w, now, None, 0, "", None, FALSE)

\* `with self._session_lock:` entered by th
Acquire(th, from, to) ==
    /\ threads[th].pc = from
    /\ lock_is_free(lock)
    /\ lock' = th
    /\ threads' = [ threads EXCEPT ![th].pc = to ]
    /\ last' = Statement(from, World(sensor))
    /\ UNCHANGED <<cfg, sensor, now, oven, db, state_file, steps, cancellations>>

\* the log after a call that cleared the capture of `session_id` has returned
\* (nothing is logged when it found no capture)
Cancelled(how, session_id) ==
    IF session_id = None THEN cancellations
    ELSE Append(cancellations, [ how |-> how, session_id |-> session_id ])

\* a web thread calls Oven.stop_cooldown_capture(session_id=...)
StopCooldownCaptureCall(limit, session_ids) ==
    \E th \in ApiThreads, session_id \in session_ids :
        /\ Count(limit)
        /\ threads[th].pc = "idle"
        /\ threads' = [ threads EXCEPT ![th] =
              [ IdleThread EXCEPT !.pc = "stop_acquire", !.op = "stop_cooldown_capture",
                                  !.session_id = session_id,
                                  !.seen = oven.cooldown_session_id ] ]
        /\ last' = Statement("stop_call", World(sensor))
        /\ UNCHANGED <<cfg, sensor, now, oven, db, state_file, lock, cancellations>>

\* oven.py 325
StopAcquire == \E th \in ApiThreads : Acquire(th, "stop_acquire", "stop_check")

\* oven.py 326-329: the two early returns
StopCheck ==
    \E th \in ApiThreads :
        /\ threads[th].pc = "stop_check"
        /\ threads' = [ threads EXCEPT ![th].pc =
              IF stop_cooldown_capture_returns(World(sensor), threads[th].session_id)
              THEN "stop_id" ELSE "stop_release" ]
        /\ last' = Statement("stop_check", World(sensor))
        /\ UNCHANGED <<cfg, sensor, now, oven, db, state_file, steps, lock,
                       cancellations>>

\* oven.py 314 and 330
ClearId ==
    \E th \in Threads, h \in {"stop", "cancel"} :
        /\ threads[th].pc = h \o "_id"
        /\ oven' = [ oven EXCEPT !.cooldown_session_id = None ]
        /\ threads' = [ threads EXCEPT ![th].pc = h \o "_until",
                                       ![th].cleared = oven.cooldown_session_id ]
        /\ last' = Statement("clear_id", [ World(sensor) EXCEPT !.o = oven' ])
        /\ UNCHANGED <<cfg, sensor, now, db, state_file, steps, lock, cancellations>>

\* oven.py 315 and 331
ClearUntil ==
    \E th \in Threads, h \in {"stop", "cancel"} :
        /\ threads[th].pc = h \o "_until"
        /\ oven' = [ oven EXCEPT !.cooldown_until_ts = NoneTs ]
        /\ threads' = [ threads EXCEPT ![th].pc = h \o "_started" ]
        /\ last' = Statement("clear_until", [ World(sensor) EXCEPT !.o = oven' ])
        /\ UNCHANGED <<cfg, sensor, now, db, state_file, steps, lock, cancellations>>

\* oven.py 316 and 332-333
ClearStarted ==
    \E th \in Threads, h \in {"stop", "cancel"} :
        /\ threads[th].pc = h \o "_started"
        /\ oven' = [ oven EXCEPT !.cooldown_started_ts = NoneTs ]
        /\ threads' = [ threads EXCEPT ![th].pc = h \o "_release",
                                       ![th].ret = (h = "stop") ]
        /\ last' = Statement("clear_started", [ World(sensor) EXCEPT !.o = oven' ])
        /\ UNCHANGED <<cfg, sensor, now, db, state_file, steps, lock, cancellations>>

\* stop_cooldown_capture leaves the lock and returns
StopRelease ==
    \E th \in ApiThreads :
        /\ threads[th].pc = "stop_release"
        /\ lock' = NoThread
        /\ threads' = [ threads EXCEPT ![th].pc = "idle" ]
        /\ cancellations' = Cancelled("stop_cooldown_capture", threads[th].cleared)
        /\ last' = Statement("stop_return", World(sensor))
        /\ UNCHANGED <<cfg, sensor, now, oven, db, state_file, steps>>

\* a web thread calls Oven.abort_run
AbortRunCall(limit, outcomes) ==
    \E th \in ApiThreads, outcome \in outcomes :
        /\ Count(limit)
        /\ threads[th].pc = "idle"
        /\ threads' = [ threads EXCEPT ![th] =
              [ IdleThread EXCEPT !.pc = "cancel_acquire", !.op = "abort_run",
                                  !.outcome = outcome,
                                  !.seen = oven.cooldown_session_id ] ]
        /\ last' = Statement("abort_call", World(sensor))
        /\ UNCHANGED <<cfg, sensor, now, oven, db, state_file, lock, cancellations>>

\* oven.py 313
CancelAcquire == \E th \in Threads : Acquire(th, "cancel_acquire", "cancel_id")

\* _cancel_cooldown_capture leaves the lock and returns: to abort_run, or to
\* _cooldown_capture_tick, which returns in turn
CancelRelease ==
    \E th \in Threads :
        /\ threads[th].pc = "cancel_release"
        /\ lock' = NoThread
        /\ threads' = [ threads EXCEPT ![th].pc =
              IF threads[th].op = "abort_run" THEN "abort_rest" ELSE "idle" ]
        /\ cancellations' = Cancelled("_cancel_cooldown_capture", threads[th].cleared)
        /\ last' = Statement("cancel_return", World(sensor))
        /\ UNCHANGED <<cfg, sensor, now, oven, db, state_file, steps>>

\* the rest of abort_run (its cancellation has left the fields clear)
AbortRest(failures) ==
    \E th \in ApiThreads, fail \in failures :
        LET w == abort_run(World(sensor), threads[th].outcome, now, fail)
        IN /\ threads[th].pc = "abort_rest"
           /\ Install(w)
           /\ threads' = [ threads EXCEPT ![th].pc = "idle" ]
           /\ cancellations' = Cancelled("abort_run", threads[th].cleared)
           /\ last' = Statement("abort_return", w)
           /\ UNCHANGED <<cfg, now, steps, lock>>

\* Oven.run, IDLE branch: the control thread calls _cooldown_capture_tick, the
\* sensor thread having published r
CooldownTickCall(limit, readings) ==
    \E r \in readings :
        /\ Count(limit)
        /\ oven.alive /\ oven.state = "IDLE"
        /\ threads["loop"].pc = "idle"
        /\ sensor' = r
        /\ threads' = [ threads EXCEPT !["loop"] =
              [ IdleThread EXCEPT !.pc = "tick_acquire", !.op = "tick",
                                  !.seen = oven.cooldown_session_id ] ]
        /\ last' = Statement("tick_call", World(r))
        /\ UNCHANGED <<cfg, now, oven, db, state_file, lock, cancellations>>

\* oven.py 370
TickAcquire == Acquire("loop", "tick_acquire", "tick_read")

\* oven.py 371-372, and the end of the `with` block
TickRead ==
    /\ threads["loop"].pc = "tick_read"
    /\ lock' = NoThread
    /\ threads' = [ threads EXCEPT !["loop"].pc = "tick_check",
                                   !["loop"].sid = oven.cooldown_session_id,
                                   !["loop"].until_ts = oven.cooldown_until_ts ]
    /\ last' = Statement("tick_read", World(sensor))
    /\ UNCHANGED <<cfg, sensor, now, oven, db, state_file, steps, cancellations>>

\* oven.py 373-380
TickCheck ==
    /\ threads["loop"].pc = "tick_check"
    /\ threads' = [ threads EXCEPT !["loop"].pc =
          IF threads["loop"].sid = None \/ threads["loop"].until_ts = NoneTs
          THEN "idle"
          ELSE IF now >= threads["loop"].until_ts THEN "cancel_acquire"
          ELSE "tick_state" ]
    /\ last' = Statement("tick_check", World(sensor))
    /\ UNCHANGED <<cfg, sensor, now, oven, db, state_file, steps, lock, cancellations>>

\* oven.py 382: get_state, which reads the cooldown fields under the lock
TickState ==
    /\ threads["loop"].pc = "tick_state"
    /\ lock_is_free(lock)
    /\ threads' = [ threads EXCEPT !["loop"].pc = "tick_persist",
                                   !["loop"].st = get_state(World(sensor), now) ]
    /\ last' = Statement("tick_state", World(sensor))
    /\ UNCHANGED <<cfg, sensor, now, oven, db, state_file, steps, lock, cancellations>>

\* oven.py 388
TickPersist(failures) ==
    \E fail \in failures :
        LET w == _persist_sample_if_possible(World(sensor), threads["loop"].sid,
                                             threads["loop"].st, now, fail)
        IN /\ threads["loop"].pc = "tick_persist"
           /\ db' = w.db
           /\ threads' = [ threads EXCEPT !["loop"].pc = "tick_threshold" ]
           /\ last' = Statement("tick_persist", w)
           /\ UNCHANGED <<cfg, sensor, now, oven, state_file, steps, lock,
                          cancellations>>

\* oven.py 389-392
TickThreshold ==
    /\ threads["loop"].pc = "tick_threshold"
    /\ threads' = [ threads EXCEPT !["loop"].pc =
          IF threads["loop"].st.temperature < _cooldown_capture_threshold
          THEN "cancel_acquire" ELSE "idle" ]
    /\ last' = Statement("tick_threshold", World(sensor))
    /\ UNCHANGED <<cfg, sensor, now, oven, db, state_file, steps, lock, cancellations>>

(***************************************************************************)
(* SpecRace: one run that completes, then the cooldown tick of the control *)
(* thread against stop_cooldown_capture and abort_run called from two web  *)
(* threads.                                                                *)
(***************************************************************************)
NextRace ==
    \/ RunProfile(MaxRaceSteps, {Cold}, { <<1, 2>> }, NoFailure)
    \/ RunningCycle(MaxRaceSteps, {Warm}, {0}, NoFailure)
    \/ StopCooldownCaptureCall(MaxRaceSteps, {None, 1, 2})
    \/ StopAcquire
    \/ StopCheck
    \/ ClearId
    \/ ClearUntil
    \/ ClearStarted
    \/ StopRelease
    \/ AbortRunCall(MaxRaceSteps, {"ABORTED"})
    \/ CancelAcquire
    \/ CancelRelease
    \/ AbortRest(NoFailure)
    \/ CooldownTickCall(MaxRaceSteps, {Cold, Warm})
    \/ TickAcquire
    \/ TickRead
    \/ TickCheck
    \/ TickState
    \/ TickPersist(NoFailure)
    \/ TickThreshold

SpecRace == InitDbOnly /\ [][NextRace]_vars

(***************************************************************************)
(* Callers of one function: the function is applied to the arguments drawn *)
(* and `last` keeps them with what it returned (raised: it raised instead).*)
(***************************************************************************)
Applied(op, args, ret, raised) ==
    [ op |-> op, args |-> args, ret |-> ret, raised |-> raised,
      pre |-> World(sensor), calls |-> <<>>, t |-> now ]

\* self.pid.compute(setpoint, ispoint), dt seconds after the call before
Compute(limit, setpoints, ispoints, dts) ==
    \E setpoint \in setpoints, ispoint \in ispoints, dt \in dts :
        LET pid == compute(oven.pid, setpoint, ispoint, now + dt)
        IN /\ Step(limit)
           /\ now' = now + dt
           /\ oven' = [ oven EXCEPT !.pid = pid ]
           /\ last' = Applied("compute", <<setpoint, ispoint, dt>>, pid.out, FALSE)
           /\ UNCHANGED <<cfg, sensor, db, state_file>>

(***************************************************************************)
(* SpecPid: PID.compute called again and again on one PID object, the      *)
(* measured value inside the control window, at its edges and outside it.  *)
(***************************************************************************)
PidSetpoints == {70}
PidIspoints == {63, 65, 67, 70, 72, 75, 77}
PidDeltas == {1, 3}

NextPid == Compute(MaxPidSteps, PidSetpoints, PidIspoints, PidDeltas)

SpecPid == InitDbOnly /\ [][NextPid]_vars

\* profile.get_target_temperature(time); the result is 0 where the call raises
TargetAt(limit, profiles) ==
    \E p \in profiles :
        \E time \in 0..(get_duration(p) + 1) :
            /\ Step(limit)
            /\ last' = Applied("get_target_temperature", <<p, time>>,
                               IF target_raises(p, time) THEN 0
                               ELSE get_target_temperature(p, time),
                               target_raises(p, time))
            /\ UNCHANGED <<cfg, sensor, now, oven, db, state_file>>

\* profile.find_time_for_temperature(target_temp, from_time)
FindTime(limit, args) ==
    \E a \in args :
        /\ Step(limit)
        /\ last' = Applied("find_time_for_temperature", a,
                           find_time_for_temperature(a[1], a[2], a[3]), FALSE)
        /\ UNCHANGED <<cfg, sensor, now, oven, db, state_file>>

(***************************************************************************)
(* SpecProfile: the two profiles asked for their target at every second up *)
(* to one past their end, and for the time of a temperature below, on and  *)
(* above their curve from starts before, at and after their end.  The      *)
(* arguments are those for which the code's float arithmetic gives whole   *)
(* numbers.                                                                *)
(***************************************************************************)
FindArgs ==
    ({1} \X {60, 70, 85, 100, 101} \X {0, 20, 58, 60, 61})
        \cup ({2} \X {60, 70, 80, 90, 100} \X (0..7))

NextProfile ==
    \/ TargetAt(MaxProfileSteps, ProfileIds)
    \/ FindTime(MaxProfileSteps, FindArgs)

SpecProfile == InitDbOnly /\ [][NextProfile]_vars

\* add_session_sample(db_path, session_id=..., state=..., t=stamp), the stamp
\* a time in half seconds: int() cuts it to the second
AddSessionSample(limit, session_ids, states, stamps) ==
    \E session_id \in session_ids, state \in states, stamp \in stamps :
        LET sample_t == stamp \div 2
        IN /\ Step(limit)
           /\ db' = add_session_sample(db, session_id, state, sample_t)
           /\ last' = Applied("add_session_sample", <<session_id, state, sample_t>>,
                              FALSE, add_session_sample_raises(db, session_id))
           /\ UNCHANGED <<cfg, sensor, now, oven, state_file>>

(***************************************************************************)
(* SpecSamples: sessions are created and samples written for them, for a   *)
(* session that does not exist too, several within the same second.        *)
(***************************************************************************)
SampleStates == { [temperature |-> 70], [temperature |-> 80] }

NextSamples ==
    \/ CreateSession(MaxSampleSteps, {1})
    \/ AddSessionSample(MaxSampleSteps, 1..(MaxSessions + 1), SampleStates, 0..3)

SpecSamples == InitDbOnly /\ [][NextSamples]_vars

(***************************************************************************)
(* SpecSchema: ensure_db on a database file that does not exist, on one a  *)
(* process left before it migrated (one thread, or two at once, had read   *)
(* the version), and again on the database it migrated, sessions and       *)
(* samples having been written in between.                                 *)
(***************************************************************************)
\* the tables of the sessions exist
Migrated(d) == {"sessions", "session_samples"} \subseteq d.tables

SchemaDbs ==
    { FreshDb,
      [ FreshDb EXCEPT !.tables = {"schema_version"}, !.schema_version = <<0>> ],
      [ FreshDb EXCEPT !.tables = {"schema_version"}, !.schema_version = <<0, 0>> ] }

\* ensure_db(db_path); `last.ret` the migrations it applied
EnsureDb(limit) ==
    LET r == ensure_db(db)
    IN /\ Step(limit)
       /\ db' = r.db
       /\ last' = Applied("ensure_db", <<>>, r.applied, FALSE)
       /\ UNCHANGED <<cfg, sensor, now, oven, state_file>>

InitSchema == InitOver({BaseConfig}, SchemaDbs)

NextSchema ==
    \/ EnsureDb(MaxSchemaSteps)
    \/ (Migrated(db) /\ CreateSession(MaxSchemaSteps, {1}))
    \/ (Migrated(db) /\ AddSessionSample(MaxSchemaSteps, 1..MaxSessions, SampleStates,
                                         {0, 2}))

SpecSchema == InitSchema /\ [][NextSchema]_vars

(***************************************************************************)
(* SpecReads: pages of samples read back from a store that holds two       *)
(* sessions, the first with samples at seconds 3, 1 and 2 (written in that *)
(* order), the second with one at second 2, and that is written to between *)
(* the reads.  The pages are asked for both sessions and for a missing     *)
(* one, with each bound absent, before, inside and after the samples, and  *)
(* with limits below 1, below and above the number of rows and above 5000. *)
(***************************************************************************)
SeededDb ==
    LET d1 == create_session(InitDb, Profiles[1].name, 0, "RUNNING")
        d2 == create_session(d1, Profiles[2].name, 0, "RUNNING")
        d3 == add_session_sample(d2, 1, [temperature |-> 80], 3)
        d4 == add_session_sample(d3, 1, [temperature |-> 70], 1)
        d5 == add_session_sample(d4, 1, [temperature |-> 70], 2)
    IN add_session_sample(d5, 2, [temperature |-> 80], 2)

ReadBounds == {NoneTs, 0, 2, 4}
ReadLimits == {0, 1, 2, 5001}

\* list_session_samples(db_path, session_id, from_t, to_t, limit)
ListSessionSamples(limit, session_ids, bounds, limits) ==
    \E session_id \in session_ids, from_t \in bounds, to_t \in bounds, lim \in limits :
        /\ Step(limit)
        /\ last' = Applied("list_session_samples", <<session_id, from_t, to_t, lim>>,
                           list_session_samples(db, session_id, from_t, to_t, lim),
                           FALSE)
        /\ UNCHANGED <<cfg, sensor, now, oven, db, state_file>>

InitReads == InitOver({BaseConfig}, {SeededDb})

NextReads ==
    \/ AddSessionSample(MaxReadSteps, 1..MaxSessions, SampleStates, {0, 8})
    \/ ListSessionSamples(MaxReadSteps, 1..(MaxSessions + 1), ReadBounds, ReadLimits)

SpecReads == InitReads /\ [][NextReads]_vars

(***************************************************************************)
(* SpecSkip: runs whose kiln is ahead of the schedule, with no warmup-skip *)
(* threshold, with one below the overshoot and with one above it; the      *)
(* overshoot has a crossing ahead in the schedule, or none (above the top  *)
(* of the profile, or the run is past its end).                            *)
(***************************************************************************)
LowSkipConfig == [ BaseConfig EXCEPT !.warmup_skip_threshold = 75 ]

\* above every temperature of the profiles and below the threshold of
\* WarmupSkipConfig
AboveProfile == Good(140)
SkipReadings == {NearTarget, Cold, Ahead, AboveProfile, Warm}
SkipRuns == { <<1, 0>>, <<2, 0>>, <<1, 2>> }

InitSkip == InitWith({BaseConfig, LowSkipConfig, WarmupSkipConfig})

NextSkip ==
    \/ RunProfile(MaxSkipSteps, {Cold}, SkipRuns, NoFailure)
    \/ RunningCycle(MaxSkipSteps, SkipReadings, {0}, NoFailure)

SpecSkip == InitSkip /\ [][NextSkip]_vars

\* profile.get_surrounding_points(time) as get_target_temperature calls it,
\* for every time from 0 to the duration; `last.ret` holds the indices of
\* prev_point and next_point in the sorted data (0: None)
SurroundingPoints(limit, profiles) ==
    \E p \in profiles :
        \E time \in 0..get_duration(p) :
            LET i == get_surrounding_points(p, time)
            IN /\ Step(limit)
               /\ last' = Applied("get_surrounding_points", <<p, time>>,
                                  IF i = 0 THEN <<0, 0>> ELSE <<PrevIndex(p, i), i>>,
                                  FALSE)
               /\ UNCHANGED <<cfg, sensor, now, oven, db, state_file>>

(***************************************************************************)
(* SpecPoints: every profile, the one that starts late included, asked for *)
(* the points around every second from 0 to its duration.                  *)
(***************************************************************************)
NextPoints == SurroundingPoints(MaxProfileSteps, AllProfiles)

SpecPoints == InitDbOnly /\ [][NextPoints]_vars

(***************************************************************************)
(* The sensor thread (class TempSensorReal).  In SpecSensor the variable   *)
(* `sensor` holds, besides what the thread publishes, the thread's own     *)
(* state: the window `temps` of run() and the counters of the object.      *)
(* The mean is the integer part of sum / len.  A chip reading that reports *)
(* a fault carries a temperature no healthy reading carries, so a window   *)
(* entry tells which reading it came from.                                 *)
(***************************************************************************)
\* iterations of the sensor loop and clock seconds in one behaviour
MaxSensorSteps == 6
\* config.temperature_average_samples
temperature_average_samples == 4

\* what thermocouple.get() and the chip's flags give in one iteration
ChipReadings ==
    { Good(90), Good(130),
      Reading(1, TRUE, FALSE, FALSE, FALSE, 0),
      Reading(2, FALSE, TRUE, FALSE, FALSE, 0),
      Reading(3, FALSE, FALSE, TRUE, FALSE, 0),
      Reading(4, FALSE, FALSE, FALSE, TRUE, 0) }

\* the configurations of the sensor thread
SensorConfigs ==
    { BaseConfig @@ [ ignore_tc_short_errors |-> b ] : b \in BOOLEAN }

\* is_bad_value of run() for the chip reading r
is_bad_value(r, c) ==
    \/ r.noConnection
    \/ r.unknownError
    \/ (~c.ignore_tc_short_errors /\ (r.shortToGround \/ r.shortToVCC))

RECURSIVE SumSeq(_)
SumSeq(s) == IF s = <<>> THEN 0 ELSE Head(s) + SumSeq(Tail(s))

\* get_avg_temp(temps) with chop = 25: the sorted window, the part that is
\* left after the chop, and the mean (raised: the division by len failed)
get_avg_temp(temps) ==
    LET sorted == SortSeq(temps, LAMBDA a, b : a < b)
        total  == Len(sorted)
        items  == (total * 25) \div 100
        rest   == SubSeq(sorted, items + 1, total - items)
    IN [ rest   |-> rest,
         raised |-> Len(rest) = 0,
         avg    |-> IF Len(rest) = 0 THEN 0 ELSE SumSeq(rest) \div Len(rest) ]

\* TempSensor.__init__ and TempSensorReal.__init__; bad_stamp is 0 on a clock
\* that reads far more than 2 * time_step when the thread starts
InitSensorReal ==
    InitSensor @@ [ temps |-> <<>>, bad_count |-> 0, ok_count |-> 0,
                    bad_stamp |-> 0 - (time_step * 2 + 1) ]

\* the head of the loop: the error counters are reset when time is up
reset_error_counter(s, t) ==
    IF t - s.bad_stamp > time_step * 2
    THEN [ s EXCEPT !.bad_percent =
                        IF s.bad_count + s.ok_count # 0
                        THEN (s.bad_count * 100) \div (s.bad_count + s.ok_count)
                        ELSE 0,
                    !.bad_count = 0, !.ok_count = 0, !.bad_stamp = t ]
    ELSE s

\* the same iteration with the reading appended whatever its flags say
run_appending_every_reading(s, r, c, t) ==
    LET s1 == reset_error_counter(s, t)
        s2 == [ s1 EXCEPT !.noConnection = r.noConnection,
                          !.shortToGround = r.shortToGround,
                          !.shortToVCC = r.shortToVCC,
                          !.unknownError = r.unknownError ]
        appended == Append(s2.temps, r.temperature)
        s3 == [ s2 EXCEPT !.temps = IF Len(appended) > temperature_average_samples
                                    THEN Tail(appended) ELSE appended,
                          !.ok_count = IF is_bad_value(r, c) THEN @ ELSE @ + 1,
                          !.bad_count = IF is_bad_value(r, c) THEN @ + 1 ELSE @ ]
    IN IF Len(s3.temps) # 0 /\ ~get_avg_temp(s3.temps).raised
       THEN [ s3 EXCEPT !.temperature = get_avg_temp(s3.temps).avg ]
       ELSE s3

\* one iteration of the loop of run() at time t, the chip giving r
run(s, r, c, t) ==
    LET s1 == reset_error_counter(s, t)
        s2 == [ s1 EXCEPT !.noConnection = r.noConnection,
                          !.shortToGround = r.shortToGround,
                          !.shortToVCC = r.shortToVCC,
                          !.unknownError = r.unknownError ]
        appended == Append(s2.temps, r.temperature)
        s3 == IF ~is_bad_value(r, c)
              THEN [ s2 EXCEPT !.temps = IF Len(appended) > temperature_average_samples
                                         THEN Tail(appended) ELSE appended,
                               !.ok_count = @ + 1 ]
              ELSE [ s2 EXCEPT !.bad_count = @ + 1 ]
    IN IF Len(s3.temps) # 0 /\ ~get_avg_temp(s3.temps).raised
       THEN [ s3 EXCEPT !.temperature = get_avg_temp(s3.temps).avg ]
       ELSE s3

\* an iteration of the sensor loop; `last.ret` tells whether get_avg_temp was
\* called, on which window, and whether the counters were reset
SensorRun(limit) ==
    \E r \in ChipReadings :
        LET s == run(sensor, r, cfg, now)
        IN /\ Step(limit)
           /\ sensor' = s
           /\ last' = Applied("sensor_run", <<r>>,
                              [ evaluated |-> Len(s.temps) # 0,
                                window    |-> s.temps,
                                reset     |-> reset_error_counter(sensor, now) # sensor ],
                              Len(s.temps) # 0 /\ get_avg_temp(s.temps).raised)
           /\ UNCHANGED <<cfg, now, oven, db, state_file>>

(***************************************************************************)
(* SpecSensor: the sensor thread alone, reading good and faulty values     *)
(* while the clock advances, with short errors ignored or not.             *)
(***************************************************************************)
InitSensorThread ==
    /\ cfg \in SensorConfigs
    /\ sensor = InitSensorReal
    /\ now = 0
    /\ oven = InitOven
    /\ db = InitDb
    /\ state_file = NoFile
    /\ steps = 0
    /\ lock = NoThread
    /\ threads = [ th \in Threads |-> IdleThread ]
    /\ cancellations = <<>>
    /\ last = Applied("init", <<>>, None, FALSE)

NextSensor ==
    \/ SensorRun(MaxSensorSteps)
    \/ Clock(MaxSensorSteps)

SpecSensor == InitSensorThread /\ [][NextSensor]_vars

(***************************************************************************)
(* The control cycle of the real oven, statement by statement, while a web *)
(* thread calls abort_run.  The statements up to update_target_temp run as *)
(* one step, as do the sample and the two checks at the end and as does    *)
(* abort_run itself; heat_then_cool is taken apart.  The sleeps of         *)
(* Output.heat and Output.cool together take time_step.                    *)
(***************************************************************************)
\* cycles and calls in one behaviour of SpecActuation
MaxActuationSteps == 4

\* config.simulate = False: RealOven drives the GPIO output
RealConfig == [ BaseConfig EXCEPT !.simulate = FALSE ]

\* oven.py 655-660: update_cost .. update_target_temp
CycleStart(limit, readings) ==
    \E r \in readings :
        LET head == cycle_head(World(r), now, 0)
        IN /\ Count(limit)
           /\ oven.alive /\ oven.state = "RUNNING"
           /\ threads["loop"].pc = "idle"
           /\ now + time_step <= MaxNow
           /\ Install(head)
           /\ threads' = [ threads EXCEPT !["loop"] =
                 [ IdleThread EXCEPT !.pc = IF head.o.alive THEN "compute" ELSE "idle",
                                     !.op = "cycle" ] ]
           /\ last' = Statement("cycle_start", head)
           /\ UNCHANGED <<cfg, now, lock, cancellations>>

\* oven.py 776-780: pid, heat_on and heat_off
CycleCompute ==
    LET pid == compute(oven.pid, oven.target, Temp(World(sensor)), now)
    IN /\ threads["loop"].pc = "compute"
       /\ oven' = [ oven EXCEPT !.pid = pid ]
       /\ threads' = [ threads EXCEPT !["loop"].pc = "indicate",
                                      !["loop"].heat_on = time_step * pid.out,
                                      !["loop"].heat_off = time_step * (100 - pid.out) ]
       /\ last' = Statement("cycle_compute", [ World(sensor) EXCEPT !.o = oven' ])
       /\ UNCHANGED <<cfg, sensor, now, db, state_file, steps, lock, cancellations>>

\* oven.py 783-785: self.heat
CycleIndicate ==
    /\ threads["loop"].pc = "indicate"
    /\ oven' = [ oven EXCEPT !.heat = IF threads["loop"].heat_on > 0 THEN 100 ELSE 0 ]
    /\ threads' = [ threads EXCEPT !["loop"].pc = "heat" ]
    /\ last' = Statement("cycle_indicate", [ World(sensor) EXCEPT !.o = oven' ])
    /\ UNCHANGED <<cfg, sensor, now, db, state_file, steps, lock, cancellations>>

\* oven.py 787-788: self.output.heat(heat_on)
CycleHeat ==
    /\ threads["loop"].pc = "heat"
    /\ oven' = [ oven EXCEPT !.output = IF threads["loop"].heat_on # 0
                                        THEN "HIGH" ELSE @ ]
    /\ threads' = [ threads EXCEPT !["loop"].pc = "cool" ]
    /\ last' = Statement("cycle_heat", [ World(sensor) EXCEPT !.o = oven' ])
    /\ UNCHANGED <<cfg, sensor, now, db, state_file, steps, lock, cancellations>>

\* oven.py 789-790: self.output.cool(heat_off); the cycle has slept time_step
CycleCool ==
    /\ threads["loop"].pc = "cool"
    /\ oven' = [ oven EXCEPT !.output = IF threads["loop"].heat_off # 0
                                        THEN "LOW" ELSE @ ]
    /\ now' = now + time_step
    /\ threads' = [ threads EXCEPT !["loop"].pc = "tail" ]
    /\ last' = Statement("cycle_cool", [ World(sensor) EXCEPT !.o = oven' ])
    /\ UNCHANGED <<cfg, sensor, db, state_file, steps, lock, cancellations>>

\* oven.py 662-665: the sample, reset_if_emergency, reset_if_schedule_ended
CycleTail(failures) ==
    \E fail \in failures :
        LET w0 == World(sensor)
            w1 == _persist_sample_if_possible(w0, None, get_state(w0, now), now, fail)
            w  == reset_if_schedule_ended(reset_if_emergency(w1, now, fail), now, fail)
        IN /\ threads["loop"].pc = "tail"
           /\ Install(w)
           /\ threads' = [ threads EXCEPT !["loop"].pc = "idle" ]
           /\ last' = Statement("cycle_tail", w)
           /\ UNCHANGED <<cfg, now, steps, lock, cancellations>>

\* a web thread runs abort_run wherever the control thread is
AbortRunAnywhere(limit, outcomes, failures) ==
    \E outcome \in outcomes, fail \in failures :
        LET w == abort_run(World(sensor), outcome, now, fail)
        IN /\ Count(limit)
           /\ Install(w)
           /\ threads' = [ threads EXCEPT !["loop"].interrupted =
                               @ \/ threads["loop"].pc # "idle" ]
           /\ last' = Last("abort_run", World(sensor), w, w, w, now, None, 0, outcome,
                           None, FALSE)
           /\ UNCHANGED <<cfg, now, lock, cancellations>>

(***************************************************************************)
(* SpecActuation: runs on the real oven with full, partial and no duty,    *)
(* one of them past its end, and aborts at any statement of the cycle.     *)
(***************************************************************************)
InitActuation == InitWith({RealConfig})

NextActuation ==
    \/ RunProfile(MaxActuationSteps, {Cold}, MainRuns, NoFailure)
    \/ CycleStart(MaxActuationSteps, ControlReadings)
    \/ CycleCompute
    \/ CycleIndicate
    \/ CycleHeat
    \/ CycleCool
    \/ CycleTail(NoFailure)
    \/ AbortRunAnywhere(MaxActuationSteps, {"ABORTED"}, NoFailure)
    \/ IdleCycle(MaxActuationSteps, {Cold}, NoFailure)

SpecActuation == InitActuation /\ [][NextActuation]_vars

(***************************************************************************)
(* reset_if_schedule_ended statement by statement, while a web thread      *)
(* calls run_profile.  The cycle up to reset_if_emergency runs as one      *)
(* step, as does run_profile itself.                                       *)
(***************************************************************************)
\* cycles and calls in one behaviour of SpecCompletion
MaxCompletionSteps == 4

\* oven.py 655-664: the iteration up to reset_if_emergency
CycleBody(limit, readings, failures) ==
    \E r \in readings, fail \in failures :
        LET t2 == now + time_step
            head == cycle_head(World(r), now, 0)
            late == reset_if_emergency(cycle_mid(head, now, fail), t2, fail)
        IN /\ Count(limit)
           /\ oven.alive /\ oven.state = "RUNNING"
           /\ threads["loop"].pc = "idle"
           /\ t2 <= MaxNow
           /\ Install(IF head.o.alive THEN late ELSE head)
           /\ now' = (IF head.o.alive THEN t2 ELSE now)
           /\ threads' = [ threads EXCEPT !["loop"] =
                 [ IdleThread EXCEPT !.pc = IF head.o.alive THEN "ended_check" ELSE "idle",
                                     !.op = "cycle" ] ]
           /\ last' = Statement("cycle_body", IF head.o.alive THEN late ELSE head)
           /\ UNCHANGED <<cfg, lock, cancellations>>

\* oven.py 500: if self.runtime > self.totaltime
EndedCheck ==
    /\ threads["loop"].pc = "ended_check"
    /\ threads' = [ threads EXCEPT !["loop"].pc =
          IF oven.runtime > oven.totaltime THEN "ended_sid" ELSE "idle",
                                   !["loop"].ret = oven.runtime > oven.totaltime ]
    /\ last' = Statement("ended_check", World(sensor))
    /\ UNCHANGED <<cfg, sensor, now, oven, db, state_file, steps, lock, cancellations>>

\* oven.py 505: sid = self._active_session_id
EndedSid ==
    /\ threads["loop"].pc = "ended_sid"
    /\ threads' = [ threads EXCEPT !["loop"].pc = "ended_stop",
                                   !["loop"].sid = oven.active_session_id ]
    /\ last' = Statement("ended_sid", World(sensor))
    /\ UNCHANGED <<cfg, sensor, now, oven, db, state_file, steps, lock, cancellations>>

\* oven.py 506-513: stop_session(sid, outcome="COMPLETED")
EndedStop(failures) ==
    \E fail \in failures :
        LET sid == threads["loop"].sid
            w == IF sid # None /\ cfg.sqlite_db_path
                 THEN IF "stop_session" \in fail
                      THEN [ World(sensor) EXCEPT !.calls =
                               Append(@, Call("stop_session", sid, TRUE, now, "COMPLETED")) ]
                      ELSE [ World(sensor) EXCEPT
                               !.db = stop_session(@, sid, now, "COMPLETED"),
                               !.calls =
                               Append(@, Call("stop_session", sid, FALSE, now, "COMPLETED")) ]
                 ELSE World(sensor)
        IN /\ threads["loop"].pc = "ended_stop"
           /\ db' = w.db
           /\ threads' = [ threads EXCEPT !["loop"].pc = "ended_capture" ]
           /\ last' = Statement("ended_stop", w)
           /\ UNCHANGED <<cfg, sensor, now, oven, state_file, steps, lock, cancellations>>

\* oven.py 516-517: if sid: self._start_cooldown_capture(session_id=sid)
EndedCapture ==
    LET sid == threads["loop"].sid
        w == IF sid # None THEN _start_cooldown_capture(World(sensor), sid, now)
             ELSE World(sensor)
    IN /\ threads["loop"].pc = "ended_capture"
       /\ lock_is_free(lock)
       /\ oven' = w.o
       /\ threads' = [ threads EXCEPT !["loop"].pc = "ended_pointer" ]
       /\ last' = Statement("ended_capture", w)
       /\ UNCHANGED <<cfg, sensor, now, db, state_file, steps, lock, cancellations>>

\* oven.py 520: self._active_session_id = None
EndedPointer ==
    /\ threads["loop"].pc = "ended_pointer"
    /\ oven' = [ oven EXCEPT !.active_session_id = None ]
    /\ threads' = [ threads EXCEPT !["loop"].pc = "ended_reset" ]
    /\ last' = Statement("ended_pointer", [ World(sensor) EXCEPT !.o = oven' ])
    /\ UNCHANGED <<cfg, sensor, now, db, state_file, steps, lock, cancellations>>

\* oven.py 523: self.reset()
EndedReset ==
    LET w == reset(World(sensor), now)
    IN /\ threads["loop"].pc = "ended_reset"
       /\ oven' = w.o
       /\ threads' = [ threads EXCEPT !["loop"].pc = "ended_save" ]
       /\ last' = Statement("ended_reset", w)
       /\ UNCHANGED <<cfg, sensor, now, db, state_file, steps, lock, cancellations>>

\* oven.py 524: self.save_automatic_restart_state()
EndedSave ==
    LET w == save_automatic_restart_state(World(sensor), now)
    IN /\ threads["loop"].pc = "ended_save"
       /\ state_file' = w.file
       /\ threads' = [ threads EXCEPT !["loop"].pc = "idle" ]
       /\ last' = Statement("ended_save", w)
       /\ UNCHANGED <<cfg, sensor, now, oven, db, steps, lock, cancellations>>

\* a web thread runs run_profile wherever the control thread is
RunProfileAnywhere(limit, readings, runs, failures) ==
    \E r \in readings, started \in runs, fail \in failures :
        LET w == run_profile(World(r), started[1], started[2], now, fail)
        IN /\ Count(limit)
           /\ lock_is_free(lock)
           /\ Len(w.db.sessions) <= MaxSessions
           /\ Install(w)
           /\ threads' = [ threads EXCEPT
                 !["loop"].interrupted = @ \/ threads["loop"].pc # "idle",
                 !["api1"] = [ IdleThread EXCEPT
                                  !.op = "run_profile",
                                  !.ret = threads["loop"].pc # "idle",
                                  !.seen = oven.active_session_id,
                                  !.profile = started[1],
                                  !.created = IF w.o.state = "RUNNING"
                                              THEN w.o.active_session_id ELSE None ] ]
           /\ last' = Last("run_profile", World(r), w, w, w, now, started[1], started[2], "",
                           None, FALSE)
           /\ UNCHANGED <<cfg, now, lock, cancellations>>

(***************************************************************************)
(* SpecCompletion: a run past its end completes while run_profile for the  *)
(* next run arrives at any statement of the completion step, automatic     *)
(* restarts enabled or not.                                                *)
(***************************************************************************)
InitCompletion == InitOver({BaseConfig, RestartConfig}, {InitDb}) /\ state_file = NoFile

NextCompletion ==
    \/ CycleBody(MaxCompletionSteps, {Cold}, NoFailure)
    \/ EndedCheck
    \/ EndedSid
    \/ EndedStop(NoFailure)
    \/ EndedCapture
    \/ EndedPointer
    \/ EndedReset
    \/ EndedSave
    \/ RunProfileAnywhere(MaxCompletionSteps, {Cold}, { <<1, 2>>, <<2, 0>> }, NoFailure)

SpecCompletion == InitCompletion /\ [][NextCompletion]_vars

(***************************************************************************)
(* SpecCapture: one run that completes and the cooldown capture that       *)
(* follows.  The control thread iterates for ever (`while True`, oven.py  *)
(* 643), so its IDLE iterations are weakly fair; so is the passing of      *)
(* time.  The clock is followed for a few seconds after the run and from   *)
(* the 48 hour cap on; Advance stands for the ticks in between, which find *)
(* the kiln above the threshold.                                           *)
(***************************************************************************)
\* operations in one behaviour of SpecCapture: more than the clock allows
MaxCaptureSteps == 16

\* the run whose capture is followed: the first call of the behaviour
StartCapturedRun ==
    /\ steps = 0
    /\ RunProfile(MaxCaptureSteps, {Cold}, { <<1, 2>> }, NoFailure)

\* the cycle in which that run completes
CapturedRunCycle == RunningCycle(MaxCaptureSteps, {Warm}, {0}, NoFailure)

\* the IDLE iterations of the control thread while the clock is followed
CaptureTick ==
    /\ \/ now >= COOLDOWN_CAP
       \/ oven.cooldown_session_id # None /\ now < Horizon - time_step
    /\ IdleCycle(MaxCaptureSteps, CooldownReadings, Failures)

\* the time up to the cap passes
CaptureAdvance ==
    /\ oven.cooldown_session_id # None
    /\ now < COOLDOWN_CAP
    /\ Advance(MaxCaptureSteps)

NextCapture ==
    \/ StartCapturedRun
    \/ CapturedRunCycle
    \/ CaptureTick
    \/ CaptureAdvance

SpecCapture ==
    /\ InitCooldown
    /\ [][NextCapture]_vars
    /\ WF_vars(CaptureTick)
    /\ WF_vars(CaptureAdvance)

(***************************************************************************)
(* SpecTrack: one run whose kiln tracks the schedule: in every cycle the   *)
(* corrected temperature is within pid_control_window of the target that   *)
(* kiln_must_catch_up tests, no emergency condition holds and nobody       *)
(* aborts.  The control thread iterates for ever (`while True`, oven.py    *)
(* 643): while it lives and the oven is RUNNING its iteration is weakly    *)
(* fair.  A second may or may not pass between the clock reads of a cycle; *)
(* the store never fails.                                                  *)
(***************************************************************************)
\* operations in one behaviour of SpecTrack: more than the run can take
MaxTrackSteps == 8

\* what the sensor publishes while the kiln follows profile 2
TrackReadings ==
    { Good(t - thermocouple_offset) : t \in {0, 3, 68, 70, 78, 80, 88, 90} }

\* the corrected temperature of r is within the control window of the target
Tracks(r) ==
    /\ oven.target - (r.temperature + thermocouple_offset) <= pid_control_window
    /\ (r.temperature + thermocouple_offset) - oven.target <= pid_control_window

\* the run that is followed: the first call of the behaviour
StartTrackedRun ==
    /\ steps = 0
    /\ RunProfile(MaxTrackSteps, {Cold}, { <<2, 0>> }, NoFailure)

\* a RUNNING iteration of the control thread that finds the kiln on track
TrackingCycle ==
    \E r \in TrackReadings :
        /\ Tracks(r)
        /\ RunningCycle(MaxTrackSteps, {r}, {0, 1}, NoFailure)

\* the control thread lives, the oven is RUNNING and the kiln is on track
CycleEnabled ==
    /\ steps < MaxTrackSteps
    /\ Quiet
    /\ oven.alive
    /\ oven.state = "RUNNING"
    /\ now + time_step <= MaxNow
    /\ \E r \in TrackReadings : Tracks(r)

\* the step of the control thread's iteration, in the behaviours of
\* SpecTrack (nothing else runs while the oven is RUNNING)
ControlThreadRuns == CycleEnabled /\ steps' = steps + 1

NextTrack ==
    \/ StartTrackedRun
    \/ TrackingCycle

InitTrack == InitWith({BaseConfig, RestartConfig}) /\ state_file = NoFile

SpecTrack ==
    /\ InitTrack
    /\ [][NextTrack]_vars
    /\ WF_steps(ControlThreadRuns)

(***************************************************************************)
(* Properties.  They read the state an operation left together with        *)
(* `last`, the record of that operation.                                   *)
(***************************************************************************)
CallsOf(fn, sid) ==
    { i \in 1..Len(last.calls) :
        last.calls[i].fn = fn /\ last.calls[i].session_id = sid }

Succeeded(fn, sid) == \E i \in CallsOf(fn, sid) : ~last.calls[i].raised
Raised(fn, sid) == \E i \in CallsOf(fn, sid) : last.calls[i].raised

CooldownFields(o) ==
    <<o.cooldown_session_id, o.cooldown_until_ts, o.cooldown_started_ts>>

NoCooldown(o) == CooldownFields(o) = <<None, NoneTs, NoneTs>>

OpenSessions(d) == { id \in SessionIds(d) : d.sessions[id].ended_at = NoneTs }

\* ------------------------------------------------------------------ C1
\* the cycle reached reset_if_schedule_ended with runtime > totaltime and an
\* active session
NaturalCompletion ==
    /\ last.op = "running_cycle"
    /\ last.late.o.alive
    /\ last.late.o.runtime > last.late.o.totaltime
    /\ last.late.o.active_session_id # None

\* what natural completion does whatever the store does: cooldown capture is
\* active for exactly S with deadline = start + 48 hours, the active session
\* pointer is unset, the oven is IDLE with heat 0
CompletionLeavesCapture(S) ==
    /\ oven.cooldown_session_id = S
    /\ oven.cooldown_started_ts = last.t
    /\ oven.cooldown_until_ts = oven.cooldown_started_ts + COOLDOWN_CAP
    /\ oven.active_session_id = None
    /\ oven.state = "IDLE"
    /\ oven.heat = 0

\* C1 as stated: after a RUNNING cycle reached reset_if_schedule_ended with
\* runtime > totaltime and an active session S, S is finalized with outcome
\* COMPLETED, cooldown capture is active for exactly S with deadline = start
\* + 48 hours, the active session pointer is unset and the oven is IDLE with
\* heat 0.
C1_CompletionFinalizes ==
    NaturalCompletion =>
        LET S == last.late.o.active_session_id
        IN /\ db.sessions[S].outcome = "COMPLETED"
           /\ db.sessions[S].ended_at # NoneTs
           /\ CompletionLeavesCapture(S)

\* C1 amended: S is finalized with outcome COMPLETED when the stop_session
\* call of that step succeeds and keeps the row it had (outcome RUNNING, no
\* end timestamp) when that call raises; in both cases cooldown capture is
\* active for exactly S with deadline = start + 48 hours, the active session
\* pointer is unset and the oven is IDLE with heat 0.
C1_CompletionFinalizesIfStored ==
    NaturalCompletion =>
        LET S == last.late.o.active_session_id
        IN /\ Succeeded("stop_session", S) \/ Raised("stop_session", S)
           /\ Succeeded("stop_session", S) =>
                 /\ db.sessions[S].outcome = "COMPLETED"
                 /\ db.sessions[S].ended_at = last.t
           /\ Raised("stop_session", S) =>
                 /\ db.sessions[S] = last.late.db.sessions[S]
                 /\ db.sessions[S].outcome = "RUNNING"
                 /\ db.sessions[S].ended_at = NoneTs
           /\ CompletionLeavesCapture(S)

\* a run completed and its session was stored as COMPLETED
C1_Completed ==
    /\ NaturalCompletion
    /\ Succeeded("stop_session", last.late.o.active_session_id)
    /\ db.sessions[last.late.o.active_session_id].outcome = "COMPLETED"
    /\ oven.cooldown_session_id = last.late.o.active_session_id

\* ------------------------------------------------------------------ C2
\* an emergency condition that is not ignored holds in the reading r
Fatal(r) ==
    LET w == World(r)
    IN \/ temp_too_high(w) /\ ~cfg.ignore_temp_too_high
       \/ r.noConnection /\ ~cfg.ignore_lost_connection_tc
       \/ r.unknownError /\ ~cfg.ignore_unknown_tc_error
       \/ too_many_errors(w) /\ ~cfg.ignore_too_many_tc_errors

\* C2: in a RUNNING control cycle each of the four emergency conditions ends
\* the run in that cycle when its ignore flag is false (the state becomes IDLE
\* and the active session is finalized with outcome ERROR), and a cycle whose
\* only emergency conditions are ignored ones, and whose schedule has not
\* ended, leaves the state as it was.
C2_EmergencyEndsRun ==
    last.op = "running_cycle" =>
        LET S == last.pre.o.active_session_id
        IN /\ Fatal(last.pre.sensor) =>
                 /\ oven.state = "IDLE"
                 /\ S # None =>
                       /\ db.sessions[S].outcome = "ERROR"
                       /\ db.sessions[S].ended_at # NoneTs
           /\ (~Fatal(last.pre.sensor)
                 /\ ~(last.late.o.runtime > last.late.o.totaltime)) =>
                 oven.state = "RUNNING"

\* the cycle of a disconnected thermocouple, not ignored, that ended in
\* update_target_temp: the oven is still RUNNING, its session still open
C2_CycleDied ==
    /\ last.op = "running_cycle"
    /\ Fatal(last.pre.sensor)
    /\ ~oven.alive
    /\ oven.state = "RUNNING"
    /\ oven.active_session_id # None
    /\ db.sessions[oven.active_session_id].outcome = "RUNNING"

\* ------------------------------------------------------------------ C3
Refused == last.op = "run_profile" /\ sensor_fault(last.pre)

\* C3: run_profile called while a sensor fault flag is set is a no-op: the
\* state is IDLE afterwards, no session is created, and the cost, the active
\* session, the persisted sessions and any cooldown capture in progress are
\* as they were before the call.
C3_RefusedStartIsNoOp ==
    Refused =>
        /\ oven.state = "IDLE"
        /\ Len(db.sessions) = Len(last.pre.db.sessions)
        /\ oven.cost = last.pre.o.cost
        /\ oven.active_session_id = last.pre.o.active_session_id
        /\ db.sessions = last.pre.db.sessions
        /\ CooldownFields(oven) = CooldownFields(last.pre.o)

\* a refused start that found a cooldown capture in progress and ended it
C3_RefusedStartEndedCapture ==
    /\ Refused
    /\ last.pre.o.cooldown_session_id # None
    /\ NoCooldown(oven)

\* ------------------------------------------------------------------ C4
Started == last.op = "run_profile" /\ ~sensor_fault(last.pre)

\* C4: a run_profile call with no sensor fault flag set leaves the oven
\* RUNNING with cost 0, a fresh PID (integral 0, last error 0), runtime =
\* startat * 60, totaltime = the profile's duration and no cooldown capture;
\* when its create_session call succeeds there is exactly one new session,
\* with the profile's name, outcome RUNNING, a start timestamp and no end
\* timestamp, and when it raises there is none.
C4_StartedRun ==
    Started =>
        LET new == Len(last.pre.db.sessions) + 1
        IN /\ oven.state = "RUNNING"
           /\ oven.cost = 0
           /\ oven.pid.iterm = 0 /\ oven.pid.lastErr = 0
           /\ oven.runtime = last.startat * 60
           /\ oven.totaltime = get_duration(last.profile)
           /\ NoCooldown(oven)
           /\ Succeeded("create_session", new) =>
                 /\ Len(db.sessions) = new
                 /\ db.sessions[new].profile_name = Profiles[last.profile].name
                 /\ db.sessions[new].outcome = "RUNNING"
                 /\ db.sessions[new].started_at = last.t
                 /\ db.sessions[new].ended_at = NoneTs
                 /\ oven.active_session_id = new
           /\ ~Succeeded("create_session", new) =>
                 /\ Len(db.sessions) = Len(last.pre.db.sessions)
                 /\ oven.active_session_id = None

\* a run started at minute 2 over a cooldown capture, its session stored
C4_StartedOverCapture ==
    /\ Started
    /\ last.startat = 2
    /\ last.pre.o.cooldown_session_id # None
    /\ Succeeded("create_session", Len(last.pre.db.sessions) + 1)
    /\ oven.state = "RUNNING"
    /\ oven.runtime = 120

\* ------------------------------------------------------------------ C5
\* what abort_run leaves whatever the store does
AbortLeavesIdle ==
    /\ oven.state = "IDLE"
    /\ oven.cost = 0 /\ oven.runtime = 0 /\ oven.totaltime = 0
    /\ oven.target = 0 /\ oven.heat = 0
    /\ oven.profile = None
    /\ oven.active_session_id = None
    /\ NoCooldown(oven)

\* C5 as stated: abort_run(outcome) leaves the oven IDLE with cost, runtime,
\* totaltime, target and heat 0, no profile, no active session pointer and no
\* cooldown capture; a session that was active is finalized with the given
\* outcome and an end timestamp.
C5_AbortFinalizes ==
    last.op = "abort_run" =>
        LET S == last.pre.o.active_session_id
        IN /\ AbortLeavesIdle
           /\ S # None =>
                 /\ db.sessions[S].outcome = last.outcome
                 /\ db.sessions[S].ended_at # NoneTs

\* C5 amended: the same, the session that was active being finalized with the
\* given outcome and an end timestamp when the stop_session call succeeds,
\* and keeping its row (outcome RUNNING, no end timestamp) when it raises.
C5_AbortFinalizesIfStored ==
    last.op = "abort_run" =>
        LET S == last.pre.o.active_session_id
        IN /\ AbortLeavesIdle
           /\ S # None =>
                 /\ Succeeded("stop_session", S) \/ Raised("stop_session", S)
                 /\ Succeeded("stop_session", S) =>
                       /\ db.sessions[S].outcome = last.outcome
                       /\ db.sessions[S].ended_at = last.t
                 /\ Raised("stop_session", S) =>
                       db.sessions[S] = last.pre.db.sessions[S]

\* an abort of a run in progress, stored with the outcome given
C5_AbortedRun ==
    /\ last.op = "abort_run"
    /\ last.pre.o.state = "RUNNING"
    /\ last.pre.o.active_session_id # None
    /\ Succeeded("stop_session", last.pre.o.active_session_id)
    /\ db.sessions[last.pre.o.active_session_id].outcome = last.outcome
    /\ oven.state = "IDLE"

\* ------------------------------------------------------------------ C6
RunOverRun == last.op = "run_profile" /\ last.pre.o.active_session_id # None

\* C6: with persistence succeeding, a run_profile called while a run with
\* active session S1 is in progress finalizes S1 with outcome ABORTED before
\* it creates the new session, and at most one session is un-ended at any
\* time.
C6_OneOpenSession ==
    /\ Cardinality(OpenSessions(db)) <= 1
    /\ RunOverRun =>
          LET S1 == last.pre.o.active_session_id
          IN /\ db.sessions[S1].outcome = "ABORTED"
             /\ db.sessions[S1].ended_at = last.t
             /\ Len(last.calls) >= 1
             /\ last.calls[1] = Call("stop_session", S1, FALSE, last.t, "ABORTED")
             /\ \A i \in 1..Len(last.calls) :
                   last.calls[i].fn = "create_session" =>
                       /\ i > 1
                       /\ last.calls[i].session_id # S1
                       /\ OpenSessions(db) = {last.calls[i].session_id}

\* a second run started over the first: S1 is ABORTED, S2 is the open one
C6_SecondRun ==
    /\ RunOverRun
    /\ Len(db.sessions) = 2
    /\ db.sessions[1].outcome = "ABORTED"
    /\ OpenSessions(db) = {2}
    /\ oven.active_session_id = 2

\* ------------------------------------------------------------------ C7
\* C7: stop_session on a session already ended, or on an unknown id, returns
\* false and changes nothing; otherwise it returns true and sets the end
\* timestamp and the outcome; so no operation changes the row of a session
\* that has ended: its ended_at and outcome are those of the first stop.
C7_StopSessionIdempotent ==
    /\ last.op = "stop_session" =>
          LET pre == last.pre.db
              id == last.session_id
              open == id \in SessionIds(pre) /\ pre.sessions[id].ended_at = NoneTs
          IN /\ last.ret = open
             /\ ~open => db = pre
             /\ open =>
                   /\ db.sessions[id].ended_at = last.t
                   /\ db.sessions[id].outcome = last.outcome
                   /\ \A other \in SessionIds(pre) \ {id} :
                         db.sessions[other] = pre.sessions[other]
    /\ \A id \in SessionIds(last.pre.db) :
          last.pre.db.sessions[id].ended_at # NoneTs =>
              db.sessions[id] = last.pre.db.sessions[id]

\* a second stop of an ended session, later and with another outcome
C7_SecondStop ==
    /\ last.op = "stop_session"
    /\ ~last.ret
    /\ last.session_id \in SessionIds(db)
    /\ db.sessions[last.session_id].ended_at # NoneTs
    /\ db.sessions[last.session_id].ended_at < last.t
    /\ db.sessions[last.session_id].outcome # last.outcome

\* ------------------------------------------------------------------ C8
\* C8: whenever the cooldown session id is set, the oven state is IDLE and
\* the active session pointer is unset.
C8_CaptureExcludesRun ==
    oven.cooldown_session_id # None =>
        /\ oven.state = "IDLE"
        /\ oven.active_session_id = None

\* a capture in progress after a tick, the session it follows ended
C8_Capturing ==
    /\ last.op = "idle_cycle"
    /\ oven.cooldown_session_id # None
    /\ oven.cooldown_session_id \in SessionIds(db)
    /\ oven.state = "IDLE"

\* ------------------------------------------------------------------ C9
\* the tick found a capture in progress, before its deadline / at or past it
TickBeforeDeadline ==
    /\ last.op = "idle_cycle"
    /\ last.mid.o.cooldown_session_id # None
    /\ last.mid.o.cooldown_until_ts # NoneTs
    /\ last.t < last.mid.o.cooldown_until_ts

TickAtDeadline ==
    /\ last.op = "idle_cycle"
    /\ last.mid.o.cooldown_session_id # None
    /\ last.mid.o.cooldown_until_ts # NoneTs
    /\ last.t >= last.mid.o.cooldown_until_ts

\* the rows of the samples other than the one of session S at time t
OtherSamples(d, S, t) == { r \in d.samples : ~(r.session_id = S /\ r.t = t) }

\* capture goes on at or above the threshold and is cancelled below it
ThresholdDecides ==
    /\ Temp(last.mid) >= _cooldown_capture_threshold =>
          /\ oven.cooldown_session_id # None
          /\ CooldownFields(oven) = CooldownFields(last.mid.o)
    /\ Temp(last.mid) < _cooldown_capture_threshold => NoCooldown(oven)

\* a tick that finds no capture in progress writes no sample, and a sample
\* is only ever written for the session that is active or captured
NoStraySample ==
    /\ (last.op = "idle_cycle" /\ last.mid.o.cooldown_session_id = None) =>
          /\ \A i \in 1..Len(last.calls) : last.calls[i].fn # "add_session_sample"
          /\ db.samples = last.mid.db.samples
    /\ \A i \in 1..Len(last.calls) :
          last.calls[i].fn = "add_session_sample" =>
              /\ last.calls[i].session_id # None
              /\ last.calls[i].session_id \in
                    {last.mid.o.active_session_id, last.mid.o.cooldown_session_id}

\* C9 as stated: a cooldown tick before the deadline persists exactly one
\* sample tagged with the captured session id, recorded with state IDLE;
\* capture stays active at or above the threshold and is cancelled below it,
\* after which no tick writes a sample.
C9_TickPersistsSample ==
    /\ TickBeforeDeadline =>
          LET S == last.mid.o.cooldown_session_id
          IN /\ Cardinality({ r \in db.samples :
                               r.session_id = S /\ r.t = last.t
                                 /\ r.state.state = "IDLE" }) = 1
             /\ ThresholdDecides
    /\ NoStraySample

\* C9 amended: a cooldown tick before the deadline makes exactly one sample
\* write, tagged with the captured session id and recorded with state IDLE;
\* the sample is stored when the write succeeds and the store is unchanged
\* when it raises; in both cases capture stays active at or above the
\* threshold and is cancelled below it, after which no tick writes a sample.
C9_TickWritesSample ==
    /\ TickBeforeDeadline =>
          LET S == last.mid.o.cooldown_session_id
              st == get_state(last.mid, last.t)
          IN /\ Len(last.calls) = 1
             /\ last.calls[1].fn = "add_session_sample"
             /\ last.calls[1].session_id = S
             /\ last.calls[1].t = last.t
             /\ last.calls[1].state = "IDLE"
             /\ st.state = "IDLE"
             /\ ~last.calls[1].raised =>
                   /\ db.samples = OtherSamples(last.mid.db, S, last.t)
                         \cup { [session_id |-> S, t |-> last.t, state |-> st] }
                   /\ db.sessions = last.mid.db.sessions
             /\ last.calls[1].raised => db = last.mid.db
             /\ ThresholdDecides
    /\ NoStraySample

\* the final sample: a tick below the threshold stored it and ended capture
C9_FinalSample ==
    /\ TickBeforeDeadline
    /\ Temp(last.mid) = _cooldown_capture_threshold - 1
    /\ ~last.calls[1].raised
    /\ \E r \in db.samples :
          /\ r.session_id = last.mid.o.cooldown_session_id
          /\ r.t = last.t
          /\ r.state.temperature = _cooldown_capture_threshold - 1
    /\ NoCooldown(oven)

\* ------------------------------------------------------------------ C10
\* C10: a cooldown tick at a time now >= deadline cancels the capture
\* (session id, deadline and start time all unset) and writes no sample,
\* whatever the temperature is.
C10_DeadlineEndsCapture ==
    TickAtDeadline =>
        /\ NoCooldown(oven)
        /\ last.calls = <<>>
        /\ db = last.mid.db

\* a tick past the deadline, the kiln still far above the threshold
C10_PastDeadlineHot ==
    /\ TickAtDeadline
    /\ last.t > last.mid.o.cooldown_until_ts
    /\ Temp(last.mid) > _cooldown_capture_threshold
    /\ NoCooldown(oven)

\* ------------------------------------------------------------------ C11
StopCall == last.op = "stop_cooldown_capture"

\* the call found no capture, or was given an id other than the captured one
StopMismatch ==
    \/ last.pre.o.cooldown_session_id = None
    \/ last.session_id # None /\ last.session_id # last.pre.o.cooldown_session_id

\* C11: stop_cooldown_capture returns false and leaves the three cooldown
\* fields as they were when no capture is active or the given session id is
\* not the captured one; with no id, or with the captured id, it clears the
\* three fields and returns true.
C11_StopCooldownCapture ==
    StopCall =>
        IF StopMismatch
        THEN /\ ~last.ret
             /\ CooldownFields(oven) = CooldownFields(last.pre.o)
        ELSE /\ last.ret
             /\ NoCooldown(oven)

\* a stop with another id than the captured one was refused
C11_MismatchedStop ==
    /\ StopCall
    /\ last.pre.o.cooldown_session_id # None
    /\ last.session_id # None
    /\ last.session_id # last.pre.o.cooldown_session_id
    /\ ~last.ret

\* ------------------------------------------------------------------ C12
\* the sessions whose capture a stop_cooldown_capture that returned true, or an
\* abort_run, has cancelled: the calls that have returned
CancelledIds ==
    { cancellations[i].session_id :
        i \in { j \in 1..Len(cancellations) :
                  cancellations[j].how \in {"stop_cooldown_capture", "abort_run"} } }

\* the sessions the last statement stored a sample for
SampledIds ==
    { last.calls[i].session_id :
        i \in { j \in 1..Len(last.calls) :
                  last.calls[j].fn = "add_session_sample" /\ ~last.calls[j].raised } }

\* C12: once a cancellation of the cooldown capture has completed, no sample
\* is persisted for the cancelled session any more, also when the cancellation
\* came from another thread while a cooldown tick was in progress.
C12_CancelIsImmediate == SampledIds \cap CancelledIds = {}

\* the tick stored a sample for a session after stop_cooldown_capture had
\* returned true for it
C12_SampleAfterStop ==
    /\ last.op = "tick_persist"
    /\ \E i \in 1..Len(cancellations) :
          /\ cancellations[i].how = "stop_cooldown_capture"
          /\ cancellations[i].session_id = threads["loop"].sid
    /\ \E row \in db.samples : row.session_id = threads["loop"].sid /\ row.t = now

\* ------------------------------------------------------------------ C13
AllOrNone(o) ==
    \/ NoCooldown(o)
    \/ /\ o.cooldown_session_id # None
       /\ o.cooldown_until_ts # NoneTs
       /\ o.cooldown_started_ts # NoneTs

\* the stop_cooldown_capture calls that returned true for the capture of S
StopsOf(S) ==
    { i \in 1..Len(cancellations) :
        /\ cancellations[i].how = "stop_cooldown_capture"
        /\ cancellations[i].session_id = S }

\* th has returned from a stop_cooldown_capture that was called while the
\* capture of S was active, with no id or with S
StoppedCaptureOf(th, S) ==
    /\ threads[th].pc = "idle"
    /\ threads[th].op = "stop_cooldown_capture"
    /\ threads[th].seen = S
    /\ threads[th].session_id \in {None, S}

\* C13: the check and the clearing of the cooldown session id are atomic
\* under the session lock: of the stop_cooldown_capture calls made from
\* different threads on one active capture exactly one returns true (unless
\* the tick or abort_run cancelled the capture first, and then none does), and
\* whenever the lock is free the three cooldown fields are all set or all
\* unset.
C13_StopIsAtomic ==
    /\ lock = NoThread => AllOrNone(oven)
    /\ \A S \in 1..MaxSessions :
          /\ Cardinality(StopsOf(S)) <= 1
          /\ \A th \in ApiThreads :
                StoppedCaptureOf(th, S) =>
                    \/ Cardinality(StopsOf(S)) = 1
                    \/ \E i \in 1..Len(cancellations) :
                          /\ cancellations[i].session_id = S
                          /\ cancellations[i].how # "stop_cooldown_capture"

\* two threads called stop_cooldown_capture on the same active capture; both
\* have returned, one with true and one with false
C13_TwoStops ==
    /\ StoppedCaptureOf("api1", 1)
    /\ StoppedCaptureOf("api2", 1)
    /\ threads["api1"].ret
    /\ ~threads["api2"].ret
    /\ Cardinality(StopsOf(1)) = 1
    /\ Len(cancellations) = 1

\* ------------------------------------------------------------------ C14
\* the oven without what it knows of the store: the state, the schedule, the
\* PID, runtime, target, heat and cost, and whether the control thread lives
Control(o) ==
    [ o EXCEPT !.active_session_id = None,
               !.cooldown_session_id = None,
               !.cooldown_until_ts = NoneTs,
               !.cooldown_started_ts = NoneTs ]

\* the worlds that differ from w in nothing but the outcome of earlier store
\* calls: another session pointer, a capture or none, rows or none
StoreVariants(w) ==
    { [ w EXCEPT !.o.active_session_id = a,
                 !.o.cooldown_session_id = c[1],
                 !.o.cooldown_until_ts = c[2],
                 !.o.cooldown_started_ts = c[3],
                 !.db = d ] :
        a \in {None, 1, w.o.active_session_id},
        c \in {<<None, NoneTs, NoneTs>>, CooldownFields(w.o), <<1, COOLDOWN_CAP, 0>>},
        d \in {InitDb, w.db} }

\* the last operation once more, from the world v, the store calls failing as
\* `fail` says (Spec leaves no gap between the clock reads of a cycle)
Replay(v, fail) ==
    CASE last.op = "run_profile" ->
           run_profile(v, last.profile, last.startat, last.t, fail)
      [] last.op = "abort_run" -> abort_run(v, last.outcome, last.t, fail)
      [] last.op = "running_cycle" -> running_cycle(v, last.t - time_step, 0, fail)
      [] last.op = "idle_cycle" ->
           _cooldown_capture_tick(
               IF last.ret THEN automatic_restart(v, last.t - 1, fail) ELSE v,
               last.t, fail)
      [] OTHER -> v

ControlOperation ==
    last.op \in {"run_profile", "abort_run", "running_cycle", "idle_cycle"}

\* C14: persistence failures never affect control.  Whatever the store calls
\* of an operation do (succeed or raise), and whatever earlier store calls
\* did, run_profile, abort_run and the control cycle leave the same state,
\* runtime, target, heat and cost (and schedule and PID state), and no
\* failure ends the control thread; so the sequences of these values are the
\* same with and without store failures.
C14_FailuresDoNotAffectControl ==
    ControlOperation =>
        \A v \in StoreVariants(last.pre), fail \in SUBSET StoreFunctions :
            Control(Replay(v, fail).o) = Control(oven)

\* a RUNNING cycle whose add_session_sample raised, and the run goes on
C14_CycleSurvivedFailure ==
    /\ last.op = "running_cycle"
    /\ Raised("add_session_sample", last.pre.o.active_session_id)
    /\ last.pre.o.active_session_id # None
    /\ oven.alive
    /\ oven.state = "RUNNING"
    /\ oven.heat > 0

\* ------------------------------------------------------------------ C15
\* what _stop_session_if_possible leaves of the session pointer, whatever the
\* store does, when the pointer of w is a
PointerAfterStop(w, a) ==
    { _stop_session_if_possible([ w EXCEPT !.o.active_session_id = a ],
                                "ABORTED", last.t, fail).o.active_session_id :
        fail \in SUBSET StoreFunctions }

\* C15: every attempt to stop the active session leaves the in-memory pointer
\* to it unset, also when stop_session raises and when no store is
\* configured: after abort_run and after natural completion the pointer is
\* unset; in run_profile the stop leaves it unset (whatever it was) and the
\* call ends with no pointer or with the session it created itself.
C15_StopClearsPointer ==
    /\ last.op = "abort_run" => oven.active_session_id = None
    /\ ( /\ last.op = "running_cycle"
         /\ last.late.o.alive
         /\ last.late.o.runtime > last.late.o.totaltime )
         => oven.active_session_id = None
    /\ last.op = "run_profile" =>
         /\ \A a \in {last.pre.o.active_session_id} \cup (1..MaxSessions) :
               PointerAfterStop(_cancel_cooldown_capture(last.pre), a) = {None}
         /\ \/ oven.active_session_id = None
            \/ /\ oven.active_session_id # last.pre.o.active_session_id
               /\ Succeeded("create_session", oven.active_session_id)

\* an abort_run over a run with a session, its stop_session raising
C15_StopRaised ==
    /\ last.op = "abort_run"
    /\ last.pre.o.active_session_id # None
    /\ Raised("stop_session", last.pre.o.active_session_id)
    /\ oven.active_session_id = None

\* ------------------------------------------------------------------ C16
\* the error of the call, and the integral and derivative terms after it
PidError == last.args[1] - last.args[2]
PidIntegral == last.pre.o.pid.iterm + (PidError * last.args[3]) \div pid_ki
PidDerivative == (PidError - last.pre.o.pid.lastErr) \div last.args[3]

InsideWindow == PidError >= 0 - pid_control_window /\ PidError <= pid_control_window

BeforeCatchUp == save_automatic_restart_state(update_cost(last.pre), last.t - time_step)
AfterCatchUp == kiln_must_catch_up(BeforeCatchUp, last.t - time_step)

\* catch-up shifted the start reference without a warmup-skip
Shifted ==
    /\ last.op = "running_cycle"
    /\ cfg.kiln_must_catch_up
    /\ too_cold(BeforeCatchUp) \/ too_hot(BeforeCatchUp)
    /\ ~warmup_skip(BeforeCatchUp)

Skipped ==
    /\ last.op = "running_cycle"
    /\ cfg.kiln_must_catch_up
    /\ warmup_skip(BeforeCatchUp)

PidIsReset(pid) == pid.iterm = 0 /\ pid.lastErr = 0

\* C17 as stated: the PID integral term and last error are reset to zero in
\* every cycle where catch-up shifts the start reference, in every cycle where
\* warmup-skip jumps the schedule, and whenever a new run starts.
C17_WarpResetsPid ==
    /\ Shifted \/ Skipped => PidIsReset(AfterCatchUp.o.pid)
    /\ Started => PidIsReset(oven.pid)

\* C17: the PID integral term and last error are reset to zero in every cycle
\* where warmup-skip jumps the schedule and whenever a new run starts; a cycle
\* where catch-up only shifts the start reference leaves them as they were.
C17_SkipAndStartResetPid ==
    /\ Skipped => PidIsReset(AfterCatchUp.o.pid)
    /\ Shifted => AfterCatchUp.o.pid = last.pre.o.pid
    /\ Started => PidIsReset(oven.pid)

\* the kiln fell behind with an integral built up inside the window: the
\* schedule was shifted and the integral is still there
C17_ShiftKeptIntegral ==
    /\ Shifted
    /\ too_cold(BeforeCatchUp)
    /\ last.pre.o.pid.iterm # 0
    /\ AfterCatchUp.o.start_time # last.pre.o.start_time
    /\ AfterCatchUp.o.pid.iterm = last.pre.o.pid.iterm

\* ------------------------------------------------------------------ C18
\* the target curve as the profile defines it: between the two control points
\* that bracket t the straight line through them, past the last point 0
Segment(p, t) ==
    CHOOSE k \in 1..(Len(Profiles[p].data) - 1) :
        Profiles[p].data[k][1] <= t /\ t <= Profiles[p].data[k + 1][1]

Curve(p, t) ==
    IF t > get_duration(p) THEN 0
    ELSE LET a == Profiles[p].data[Segment(p, t)]
             b == Profiles[p].data[Segment(p, t) + 1]
         IN a[2] + ((t - a[1]) * (b[2] - a[2])) \div (b[1] - a[1])

AskedTarget == last.op = "get_target_temperature"

\* C18: for 0 <= t <= duration get_target_temperature(t) returns the linear
\* interpolation between the two bracketing control points, so at each control
\* point, the last one included, that point's temperature, and for
\* t > duration exactly 0; for {(0,70),(60,100)} the values at 0, 30, 60, 61
\* are 70, 85, 100, 0.
C18_TargetInterpolates ==
    AskedTarget =>
        /\ ~last.raised
        /\ last.ret = Curve(last.args[1], last.args[2])
        /\ \A i \in 1..Len(Profiles[last.args[1]].data) :
              last.args[2] = Profiles[last.args[1]].data[i][1]
                  => last.ret = Profiles[last.args[1]].data[i][2]
        /\ last.args = <<1, 0>> => last.ret = 70
        /\ last.args = <<1, 30>> => last.ret = 85
        /\ last.args = <<1, 60>> => last.ret = 100
        /\ last.args = <<1, 61>> => last.ret = 0

\* the target was asked for at t = duration and the call raised
C18_RaisedAtDuration ==
    /\ AskedTarget
    /\ last.args[2] = get_duration(last.args[1])
    /\ last.raised

\* everywhere else the call returns the curve
C18_TargetElsewhere ==
    (AskedTarget /\ last.args[2] # get_duration(last.args[1])) =>
        /\ ~last.raised
        /\ last.ret = Curve(last.args[1], last.args[2])

\* ------------------------------------------------------------------ C19
AskedTime == last.op = "find_time_for_temperature"

\* the seconds from t0 to the end of the profile at which the curve is at or
\* above v
TimesAtOrAbove(p, v, t0) == { t \in t0..get_duration(p) : Curve(p, t) >= v }

Earliest(S) == CHOOSE t \in S : \A u \in S : t <= u

\* what the claim says of a call with from_time t0 for which it holds
FindsAsClaimed(p, v, t0) ==
    IF Curve(p, t0) >= v THEN last.ret = t0
    ELSE IF TimesAtOrAbove(p, v, t0) # {}
    THEN /\ last.ret = Earliest(TimesAtOrAbove(p, v, t0))
         /\ last.ret >= t0
         /\ last.ret <= get_duration(p)
         /\ Curve(p, last.ret) = v
    ELSE last.ret = NoneTs

\* C19 as stated: find_time_for_temperature(v, t0) returns t0 when the target
\* curve at t0 is already >= v; otherwise the earliest time t >= t0, never
\* beyond the duration, at which the curve equals v when a later segment
\* reaches v; and None when no rising segment after t0 reaches v.
C19_FindsTime ==
    AskedTime => FindsAsClaimed(last.args[1], last.args[2], last.args[3])

\* from every t0 before the end of the profile the call does what the claim
\* says; from t0 at or past the end it returns None whatever v is
C19_FindsTimeBeforeEnd ==
    AskedTime =>
        IF last.args[3] >= get_duration(last.args[1])
        THEN last.ret = NoneTs
        ELSE FindsAsClaimed(last.args[1], last.args[2], last.args[3])

\* asked from the last control point for a temperature the curve has there,
\* the call returned None
C19_NoneAtEnd ==
    /\ AskedTime
    /\ last.args[3] = get_duration(last.args[1])
    /\ Curve(last.args[1], last.args[3]) >= last.args[2]
    /\ last.ret = NoneTs

\* the curve was below v at t0 and reaches v later: the call returned the
\* crossing, inside a segment
C19_FoundCrossing ==
    /\ AskedTime
    /\ last.args[3] < get_duration(last.args[1])
    /\ Curve(last.args[1], last.args[3]) < last.args[2]
    /\ last.ret > last.args[3]
    /\ Curve(last.args[1], last.ret) = last.args[2]
    /\ \A i \in 1..Len(Profiles[last.args[1]].data) :
          Profiles[last.args[1]].data[i][1] # last.ret

\* ------------------------------------------------------------------ C20
WroteSample == last.op = "add_session_sample"

\* the rows of d under the key (session_id, t), and the others
RowsAt(d, session_id, t) == { r \in d.samples : r.session_id = session_id /\ r.t = t }
RowsElsewhere(d, session_id, t) == d.samples \ RowsAt(d, session_id, t)

\* C20: add_session_sample is an upsert keyed by (session_id, t): after any
\* sequence of writes there is at most one stored row per session and integer
\* second, it holds the state of the most recent write for that key, and a
\* write leaves the rows of every other key as they were.
C20_SampleUpsert ==
    /\ \A r1 \in db.samples, r2 \in db.samples :
          (r1.session_id = r2.session_id /\ r1.t = r2.t) => r1 = r2
    /\ (WroteSample /\ ~last.raised) =>
          /\ RowsAt(db, last.args[1], last.args[3])
                = { [session_id |-> last.args[1], t |-> last.args[3],
                     state |-> last.args[2]] }
          /\ RowsElsewhere(db, last.args[1], last.args[3])
                = RowsElsewhere(last.pre.db, last.args[1], last.args[3])
    /\ (WroteSample /\ last.raised) => db = last.pre.db

\* a write replaced the row of its key by another state, with rows of another
\* second and of another session in the store
C20_Replaced ==
    /\ WroteSample
    /\ ~last.raised
    /\ \E r \in RowsAt(last.pre.db, last.args[1], last.args[3]) : r.state # last.args[2]
    /\ \E r \in db.samples : r.session_id = last.args[1] /\ r.t # last.args[3]
    /\ \E r \in db.samples : r.session_id # last.args[1]


(***************************************************************************)
(* C21: the samples of one session are written in clock order.             *)
(***************************************************************************)
\* the sample writes of the last operation, in the order they were made
SampleWrites ==
    { i \in 1..Len(last.calls) : last.calls[i].fn = "add_session_sample" }

\* the rows a session had before the last operation: its earlier writes
EarlierRows(session_id) ==
    { r \in last.pre.db.samples : r.session_id = session_id }

\* C21: no sample write of a control cycle or of a cooldown tick carries a
\* timestamp smaller than that of an earlier write for the same session,
\* whether the earlier write was made by an earlier operation or by the same
\* one.
C21_SamplesInClockOrder ==
    \A i \in SampleWrites :
        /\ \A r \in EarlierRows(last.calls[i].session_id) : r.t <= last.calls[i].t
        /\ \A j \in SampleWrites :
              (j < i /\ last.calls[j].session_id = last.calls[i].session_id)
                  => last.calls[j].t <= last.calls[i].t

\* a cooldown tick wrote a sample for a session that holds the samples of its
\* run
C21_TickAfterRunSamples ==
    /\ last.op = "idle_cycle"
    /\ \E i \in SampleWrites :
          /\ ~last.calls[i].raised
          /\ \E r \in EarlierRows(last.calls[i].session_id) :
                r.state.state = "RUNNING"


(***************************************************************************)
(* C22: automatic restart.                                                 *)
(***************************************************************************)
\* the clock when the IDLE cycle looked at the snapshot (a restart sleeps one
\* second before the cycle goes on)
RestartCheckTime == IF last.ret THEN last.t - 1 ELSE last.t

\* the three conditions, on the world the cycle started from
RestartAllowed ==
    /\ cfg.automatic_restarts
    /\ last.pre.file.exists
    /\ RestartCheckTime - last.pre.file.mtime <= automatic_restart_window * 60
    /\ last.pre.file.state.state = "RUNNING"

\* C22: an IDLE cycle resumes a run only if automatic_restarts is enabled,
\* the snapshot file exists with an age within the window and the snapshot's
\* state is RUNNING; a cycle that meets the three resumes, and an accepted
\* resume runs the recorded profile from the recorded runtime, with the
\* recorded cost.
C22_AutomaticRestart ==
    last.op = "idle_cycle" =>
        /\ last.ret <=> RestartAllowed
        /\ oven.state = "RUNNING" => last.ret
        /\ (last.ret /\ ~sensor_fault(last.pre)) =>
              /\ oven.state = "RUNNING"
              /\ oven.profile = last.pre.file.state.profile
              /\ oven.runtime = last.pre.file.state.runtime
              /\ oven.start_time = RestartCheckTime - last.pre.file.state.runtime
              /\ oven.totaltime = get_duration(last.pre.file.state.profile)
              /\ oven.cost = last.pre.file.state.cost

\* an IDLE cycle resumed the interrupted run of the snapshot
C22_Resumed ==
    /\ last.op = "idle_cycle"
    /\ last.ret
    /\ oven.state = "RUNNING"
    /\ oven.runtime = last.pre.file.state.runtime
    /\ oven.runtime > 0

(***************************************************************************)
(* C23: ensure_db on a fresh database.                                     *)
(***************************************************************************)
OnFreshDb == last.op = "ensure_db" /\ last.pre.db = FreshDb

\* C23: after ensure_db on a fresh database schema_version holds the single
\* version 2 and the tables schema_version, sessions, session_samples and
\* settings exist.
C23_FreshDbIsVersion2 ==
    OnFreshDb =>
        /\ db.schema_version = <<2>>
        /\ {"schema_version", "sessions", "session_samples", "settings"}
               \subseteq db.tables

\* ensure_db ran on a fresh database and left version 1 and no settings table
C23_FreshDbIsVersion1 ==
    /\ OnFreshDb
    /\ db.schema_version = <<1>>
    /\ "settings" \notin db.tables

\* what ensure_db does leave on a fresh database: the single version
\* LATEST_SCHEMA_VERSION and the three tables of migration 1
C23_FreshDbIsLatest ==
    OnFreshDb =>
        /\ db.schema_version = << LATEST_SCHEMA_VERSION >>
        /\ db.tables = {"schema_version", "sessions", "session_samples"}
        /\ last.ret = <<1>>

(***************************************************************************)
(* C24: ensure_db is idempotent.                                           *)
(***************************************************************************)
\* a database an ensure_db has completed on
AlreadyMigrated(d) ==
    /\ d.schema_version = << LATEST_SCHEMA_VERSION >>
    /\ "schema_version" \in d.tables
    /\ Migrated(d)

Listed == last.op = "list_session_samples"

\* the stored samples of the session asked for, inside the inclusive bounds
InRange ==
    { r \in db.samples :
        /\ r.session_id = last.args[1]
        /\ last.args[2] = NoneTs \/ last.args[2] <= r.t
        /\ last.args[3] = NoneTs \/ r.t <= last.args[3] }

\* the page size the claim states
PageSize ==
    IF last.args[4] <= 0 THEN 500
    ELSE IF last.args[4] > 5000 THEN 5000 ELSE last.args[4]

SkipTarget ==
    find_time_for_temperature(last.pre.o.profile, Temp(last.pre), last.pre.o.runtime)

\* the conditions of the claim, on the world the cycle started from
SkipApplies ==
    /\ Temp(last.pre) - last.pre.o.target > pid_control_window
    /\ cfg.warmup_skip_threshold > 0
    /\ Temp(last.pre) < cfg.warmup_skip_threshold
    /\ last.pre.o.target < cfg.warmup_skip_threshold
    /\ SkipTarget # NoneTs
    /\ SkipTarget > last.pre.o.runtime

\* C27: in a RUNNING cycle with catch-up enabled, if the cycle is too hot,
\* warmup_skip_threshold is > 0, temp and target are below it and
\* find_time_for_temperature(temp, runtime) yields a time > runtime, the
\* schedule time jumps forward to that time, the PID integral and last error
\* become 0 and the start reference is the one of the jump, not of the too-hot
\* shift; in every other too-hot cycle the too-hot shift is applied (the
\* runtime stays, the PID is not reset); and in a cycle where the conditions do
\* not all hold the PID is left alone and the runtime does not jump.
C27_WarmupSkip ==
    (last.op = "running_cycle" /\ cfg.kiln_must_catch_up) =>
        /\ SkipApplies =>
              /\ last.mid.o.runtime = SkipTarget
              /\ last.mid.o.runtime > last.pre.o.runtime
              /\ AfterCatchUp.o.start_time = (last.t - time_step) - SkipTarget
              /\ PidIsReset(AfterCatchUp.o.pid)
        /\ (Temp(last.pre) - last.pre.o.target > pid_control_window /\ ~SkipApplies) =>
              /\ AfterCatchUp.o.start_time = (last.t - time_step) - last.pre.o.runtime
              /\ last.mid.o.runtime = last.pre.o.runtime
              /\ AfterCatchUp.o.pid = last.pre.o.pid
        /\ ~SkipApplies =>
              /\ AfterCatchUp.o.pid = last.pre.o.pid
              /\ last.mid.o.runtime
                    \in { last.pre.o.runtime,
                          (last.t - time_step) - last.pre.o.start_time }

\* a warmup-skip jumped a run that had built up an integral
C27_SkippedAhead ==
    /\ last.op = "running_cycle"
    /\ SkipApplies
    /\ last.pre.o.pid.iterm # 0
    /\ last.mid.o.runtime = SkipTarget
    /\ last.mid.o.runtime > last.pre.o.runtime + time_step


(***************************************************************************)
(* C28: what changes the integral term.                                    *)
(***************************************************************************)
\* the error and the time delta of the cycle's PID.compute call
CycleError == last.mid.o.target - Temp(last.pre)
CycleDelta ==
    IF last.t - time_step > last.pre.o.pid.lastNow
    THEN (last.t - time_step) - last.pre.o.pid.lastNow ELSE 1

\* the integral term the cycle's compute call starts from
IntegralBefore == IF Skipped THEN 0 ELSE last.pre.o.pid.iterm

\* C28: a PID.compute call with the error outside the control window leaves
\* the integral term unchanged and one with the error inside it adds
\* error*dt/ki; besides compute only a warmup-skip and a reset (a new run, an
\* abort, the end of a run) change the integral term, to 0.
C28_IntegralFrame ==
    /\ (last.op = "running_cycle" /\ last.mid.o.alive) =>
          /\ (CycleError < 0 - pid_control_window \/ CycleError > pid_control_window)
                => last.mid.o.pid.iterm = IntegralBefore
          /\ (CycleError >= 0 - pid_control_window /\ CycleError <= pid_control_window)
                => last.mid.o.pid.iterm
                     = IntegralBefore + (CycleError * CycleDelta) \div pid_ki
          /\ oven.pid.iterm = IF oven.state = "IDLE" THEN 0 ELSE last.mid.o.pid.iterm
    /\ last.op \in {"run_profile", "abort_run"} => oven.pid.iterm = 0
    /\ last.op = "idle_cycle" =>
          oven.pid.iterm = IF last.ret THEN 0 ELSE last.pre.o.pid.iterm

\* a cycle too hot for the window, with no warmup-skip, left the integral
\* that earlier cycles had built up
C28_IntegralKeptOutside ==
    /\ last.op = "running_cycle"
    /\ ~Skipped
    /\ CycleError < 0 - pid_control_window
    /\ last.pre.o.pid.iterm # 0
    /\ last.mid.o.pid.iterm = last.pre.o.pid.iterm
    /\ oven.state = "RUNNING"

(***************************************************************************)
(* C29: the sample of a RUNNING cycle.                                     *)
(***************************************************************************)
\* a RUNNING cycle of a run that has a session in a configured store
SessionCycle ==
    /\ last.op = "running_cycle"
    /\ cfg.sqlite_db_path
    /\ last.pre.o.active_session_id # None

\* the cycle made one sample write, its first store call, for the active
\* session, with the state RUNNING that heat_then_cool left
OneRunningSample ==
    /\ Cardinality(SampleWrites) = 1
    /\ last.calls[1].fn = "add_session_sample"
    /\ last.calls[1].session_id = last.pre.o.active_session_id
    /\ last.calls[1].state = "RUNNING"
    /\ last.calls[1].t = last.t
    /\ \A i \in 2..Len(last.calls) : last.calls[i].fn = "stop_session"

\* C29: every RUNNING control cycle attempts exactly one sample write, tagged
\* with the active session id and with state RUNNING, after heat_then_cool
\* and before the emergency and completion checks of the cycle.
C29_CycleWritesOneSample == SessionCycle => OneRunningSample

\* a cycle whose runtime hit the duration ended in update_target_temp and
\* wrote no sample
C29_CycleDiedUnsampled ==
    /\ SessionCycle
    /\ ~oven.alive
    /\ last.pre.o.alive
    /\ SampleWrites = {}

\* every cycle that gets past update_target_temp writes its one sample, the
\* cycles that end the run by emergency or completion included
C29_LiveCycleWritesOneSample ==
    (SessionCycle /\ last.mid.o.alive) =>
        /\ OneRunningSample
        /\ last.mid.o.state = "RUNNING"

\* the last cycle of a run, ended by emergency or completion, wrote its sample
C29_LastCycleSampled ==
    /\ SessionCycle
    /\ oven.state = "IDLE"
    /\ OneRunningSample
    /\ Len(last.calls) = 2


(***************************************************************************)
(* C30: cost.                                                              *)
(***************************************************************************)
\* a RUNNING cycle accrues cost once, at its start, from the heat the
\* previous cycle left (nothing when that heat is 0); the first cycle of a
\* run that starts from reset leaves cost 0; the cost never decreases during
\* a run; run_profile, abort_run and the reset that ends a run leave cost 0
CostAccrual ==
    /\ last.op = "running_cycle" =>
          /\ last.mid.o.cost = last.pre.o.cost + last.pre.o.heat
          /\ last.mid.o.cost >= last.pre.o.cost
          /\ (last.pre.o.cost = 0 /\ last.pre.o.heat = 0) => last.mid.o.cost = 0
          /\ oven.cost = IF oven.state = "IDLE" THEN 0 ELSE last.mid.o.cost
    /\ last.op = "run_profile" => (oven.cost = 0 /\ oven.heat = 0)
    /\ last.op = "abort_run" => (oven.state = "IDLE" /\ oven.cost = 0)

\* C30: cost is accrued once per RUNNING cycle, at the start of the cycle,
\* from the heat value left by the previous cycle (nothing when heat is 0):
\* cost is 0 after the first cycle of a run started from reset, never
\* decreases during a run, and is 0 whenever the oven has returned to IDLE
\* through reset.
C30_CostAsClaimed ==
    /\ CostAccrual
    /\ oven.state = "IDLE" => oven.cost = 0

\* an automatic restart that run_profile refused left the idle oven with the
\* cost of the snapshot
C30_IdleWithCost ==
    /\ last.op = "idle_cycle"
    /\ last.ret
    /\ sensor_fault(last.pre)
    /\ oven.state = "IDLE"
    /\ oven.cost = last.pre.file.state.cost
    /\ oven.cost > 0

\* what does hold: the accrual in every cycle, and cost 0 after every
\* operation that ends in reset other than a refused automatic restart
C30_CostAccrual ==
    /\ CostAccrual
    /\ (oven.state = "IDLE" /\ oven.cost # 0) =>
          \/ last.op = "idle_cycle" /\ last.ret
          \/ last.pre.o.state = "IDLE" /\ last.pre.o.cost = oven.cost

\* a cycle added the heat of the cycle before it to a cost that was already
\* above 0
C30_CostGrew ==
    /\ last.op = "running_cycle"
    /\ last.pre.o.cost > 0
    /\ last.pre.o.heat > 0
    /\ oven.state = "RUNNING"
    /\ oven.cost = last.pre.o.cost + last.pre.o.heat


(***************************************************************************)
(* C31: what the schedule corrections leave alone.                         *)
(***************************************************************************)
\* the Oven object without the fields a correction may write
OutsideCorrection(o) ==
    [ o EXCEPT !.start_time = 0, !.pid.iterm = 0, !.pid.lastErr = 0 ]

\* C31: in a RUNNING cycle kiln_must_catch_up changes only the start
\* reference and, on warmup-skip, the PID integral and last error: the wall
\* clock start of the run, cost, state, profile, totaltime, the session and
\* cooldown fields, the store and the state file stay as they were, and the
\* elapsed time the cycle reports is the wall-clock time since the start of
\* the run whatever happened to the runtime.
C31_CorrectionFrame ==
    (last.op = "running_cycle" /\ cfg.kiln_must_catch_up) =>
        /\ OutsideCorrection(AfterCatchUp.o) = OutsideCorrection(BeforeCatchUp.o)
        /\ ~Skipped => AfterCatchUp.o.pid = BeforeCatchUp.o.pid
        /\ AfterCatchUp.db = BeforeCatchUp.db
        /\ AfterCatchUp.file = BeforeCatchUp.file
        /\ get_state(AfterCatchUp, last.t).elapsed
              = get_state(BeforeCatchUp, last.t).elapsed
        /\ last.mid.o.wall_start_ts = last.pre.o.wall_start_ts
        /\ last.mid.o.alive =>
              get_state(last.mid, last.t).elapsed = last.t - last.pre.o.wall_start_ts

\* a warmup-skip put the runtime ahead of the elapsed time, and a shift held
\* it back behind the elapsed time
C31_RuntimeApartFromElapsed ==
    /\ last.op = "running_cycle"
    /\ last.pre.o.wall_start_ts # NoneTs
    /\ \/ Skipped /\ last.mid.o.runtime > last.t - last.pre.o.wall_start_ts
       \/ /\ Shifted
          /\ last.pre.o.runtime > 0
          /\ last.mid.o.runtime < (last.t - time_step) - last.pre.o.wall_start_ts

(***************************************************************************)
(* C32: the points get_target_temperature interpolates between.            *)
(***************************************************************************)
AskedPoints == last.op = "get_surrounding_points"

\* prev_point and next_point are adjacent points, the earlier one on the left
AdjacentPair ==
    /\ last.ret[1] >= 1
    /\ last.ret[2] = last.ret[1] + 1
    /\ last.ret[2] <= Len(Profiles[last.args[1]].data)

\* C32: for every profile and every t from 0 up to the duration the pair of
\* points get_target_temperature uses is a pair of adjacent points of the
\* sorted data with the earlier one on the left: the first point is never
\* the next point and the last point is never the previous point.
C32_AdjacentPoints == AskedPoints => AdjacentPair

\* before the first point of a profile that starts late the previous point
\* is the last point of the profile and the next point is the first
C32_WrappedAround ==
    /\ AskedPoints
    /\ last.args[2] < Profiles[last.args[1]].data[1][1]
    /\ last.ret = << Len(Profiles[last.args[1]].data), 1 >>

\* from the first point's time to just before the duration the pair is
\* adjacent and brackets t; at the duration itself there is no pair (C18)
C32_AdjacentInside ==
    AskedPoints =>
        LET data == Profiles[last.args[1]].data
        IN /\ (data[1][1] <= last.args[2] /\ last.args[2] < get_duration(last.args[1]))
                 => /\ AdjacentPair
                    /\ data[last.ret[1]][1] <= last.args[2]
                    /\ last.args[2] < data[last.ret[2]][1]
           /\ last.args[2] = get_duration(last.args[1]) => last.ret = <<0, 0>>

(***************************************************************************)
(* C33: the window of the sensor thread.                                   *)
(***************************************************************************)
SensorRan == last.op = "sensor_run"

\* the temperatures of the chip readings that are not bad under cfg
GoodValues == { r.temperature : r \in { x \in ChipReadings : ~is_bad_value(x, cfg) } }

\* C33: an iteration of the sensor loop with a bad reading counts it and
\* leaves the window as it was, one with a good reading appends it and drops
\* the oldest entry beyond temperature_average_samples; the window never
\* holds more than temperature_average_samples entries and holds good
\* readings only; the trimmed mean is evaluated exactly when the window is
\* not empty, averages a non-empty remainder and is what is published
C33_WindowOfGoodReadings ==
    SensorRan =>
        LET pre  == last.pre.sensor
            base == reset_error_counter(pre, last.t)
            r    == last.args[1]
            app  == Append(pre.temps, r.temperature)
        IN /\ is_bad_value(r, cfg) =>
                /\ sensor.temps = pre.temps
                /\ sensor.bad_count = base.bad_count + 1
                /\ sensor.ok_count = base.ok_count
           /\ ~is_bad_value(r, cfg) =>
                /\ sensor.temps = IF Len(app) > temperature_average_samples
                                  THEN Tail(app) ELSE app
                /\ sensor.ok_count = base.ok_count + 1
                /\ sensor.bad_count = base.bad_count
           /\ Len(sensor.temps) <= temperature_average_samples
           /\ \A i \in 1..Len(sensor.temps) : sensor.temps[i] \in GoodValues
           /\ last.ret.evaluated <=> Len(sensor.temps) # 0
           /\ ~last.raised
           /\ last.ret.evaluated =>
                /\ Len(get_avg_temp(sensor.temps).rest) >= 1
                /\ sensor.temperature = get_avg_temp(sensor.temps).avg
           /\ ~last.ret.evaluated => sensor.temperature = pre.temperature

\* a bad reading arrives when more good readings than the window holds have
\* been taken: the full window is kept and averaged without its ends
C33_BadReadingOnFullWindow ==
    /\ SensorRan
    /\ is_bad_value(last.args[1], cfg)
    /\ sensor.ok_count > temperature_average_samples
    /\ Len(sensor.temps) = temperature_average_samples
    /\ Len(get_avg_temp(sensor.temps).rest) = temperature_average_samples - 2

(***************************************************************************)
(* C34: natural completion and the outcome of the store calls.             *)
(***************************************************************************)
\* the cycle reached reset_if_schedule_ended with runtime > totaltime,
\* whether the run has a session or not
ScheduleEnded ==
    /\ last.op = "running_cycle"
    /\ last.late.o.alive
    /\ last.late.o.state = "RUNNING"
    /\ last.late.o.runtime > last.late.o.totaltime

\* C34 as stated: the transition taken on natural completion does not depend
\* on what the store calls did, its cooldown part included: after a cycle
\* with runtime > totaltime cooldown capture is active and the oven is IDLE,
\* whether or not create_session succeeded when the run began and whether or
\* not stop_session succeeds now.
C34_CaptureWhateverTheStoreDid ==
    ScheduleEnded =>
        /\ oven.state = "IDLE"
        /\ oven.active_session_id = None
        /\ oven.cooldown_session_id # None
        /\ oven.cooldown_started_ts = last.t
        /\ oven.cooldown_until_ts = last.t + COOLDOWN_CAP

\* a run whose create_session raised ends naturally: IDLE, and no capture
C34_CompletedWithoutCapture ==
    /\ ScheduleEnded
    /\ last.late.o.active_session_id = None
    /\ oven.state = "IDLE"
    /\ NoCooldown(oven)

\* what the code does: the capture follows the session pointer the run got
\* from create_session, and not the outcome of stop_session
C34_CaptureFollowsPointer ==
    ScheduleEnded =>
        /\ oven.state = "IDLE"
        /\ oven.active_session_id = None
        /\ last.late.o.active_session_id = None => NoCooldown(oven)
        /\ last.late.o.active_session_id # None =>
              CooldownFields(oven) = << last.late.o.active_session_id,
                                        last.t + COOLDOWN_CAP, last.t >>

\* stop_session raised on completion and the capture started all the same
C34_CaptureAfterFailedStop ==
    /\ ScheduleEnded
    /\ Raised("stop_session", last.late.o.active_session_id)
    /\ oven.cooldown_session_id = last.late.o.active_session_id
    /\ oven.cooldown_session_id # None

(***************************************************************************)
(* C35: an emergency in the cycle in which the schedule ends.              *)
(***************************************************************************)
\* an emergency condition that the configuration does not ignore holds for
\* the reading of w
emergency_not_ignored(w) ==
    \/ temp_too_high(w) /\ ~cfg.ignore_temp_too_high
    \/ w.sensor.noConnection /\ ~cfg.ignore_lost_connection_tc
    \/ w.sensor.unknownError /\ ~cfg.ignore_unknown_tc_error
    \/ too_many_errors(w) /\ ~cfg.ignore_too_many_tc_errors

\* a RUNNING cycle came to its two checks with runtime > totaltime and an
\* emergency condition that is not ignored
EmergencyPastEnd ==
    /\ last.op = "running_cycle"
    /\ last.mid.o.alive
    /\ last.mid.o.state = "RUNNING"
    /\ last.mid.o.runtime > last.mid.o.totaltime
    /\ emergency_not_ignored(last.mid)

\* no store call of the last operation asked for the outcome COMPLETED
NoCompletedCall ==
    \A i \in 1..Len(last.calls) :
        last.calls[i].fn = "stop_session" => last.calls[i].state # "COMPLETED"

\* C35 as stated: when an emergency condition that is not ignored and
\* runtime > totaltime hold in one RUNNING cycle, the session is finalized
\* with outcome ERROR (not COMPLETED) and no cooldown capture is started.
C35_EmergencyFinalizesError ==
    EmergencyPastEnd =>
        LET S == last.mid.o.active_session_id
        IN /\ NoCooldown(oven)
           /\ S # None =>
                 /\ db.sessions[S].outcome = "ERROR"
                 /\ db.sessions[S].ended_at # NoneTs

\* C35 amended: in such a cycle the emergency takes precedence: the oven is
\* IDLE with no session pointer and no cooldown capture, the store is never
\* asked for COMPLETED, and the session is finalized with outcome ERROR when
\* the stop_session call succeeds and keeps its row (outcome RUNNING, no end
\* timestamp) when that call raises.
C35_EmergencyBeforeCompletion ==
    EmergencyPastEnd =>
        LET S == last.mid.o.active_session_id
        IN /\ oven.state = "IDLE"
           /\ oven.active_session_id = None
           /\ NoCooldown(oven)
           /\ NoCompletedCall
           /\ S # None =>
                 /\ Succeeded("stop_session", S) \/ Raised("stop_session", S)
                 /\ Succeeded("stop_session", S) =>
                       /\ db.sessions[S].outcome = "ERROR"
                       /\ db.sessions[S].ended_at = last.t
                 /\ Raised("stop_session", S) =>
                       db.sessions[S] = last.mid.db.sessions[S]

\* a run past its end lost its thermocouple: stored as ERROR, no capture
C35_ErrorPastEnd ==
    /\ EmergencyPastEnd
    /\ last.mid.o.active_session_id # None
    /\ Succeeded("stop_session", last.mid.o.active_session_id)
    /\ db.sessions[last.mid.o.active_session_id].outcome = "ERROR"
    /\ NoCooldown(oven)
    /\ oven.state = "IDLE"

(***************************************************************************)
(* C36: the recovery snapshot after a run was stopped.                     *)
(***************************************************************************)
\* with automatic restarts enabled the last operation took the oven from
\* RUNNING to IDLE
StoppedRun ==
    /\ cfg.automatic_restarts
    /\ last.op \in {"abort_run", "running_cycle", "run_profile"}
    /\ last.pre.o.state = "RUNNING"
    /\ oven.state = "IDLE"

\* the recovery snapshot exists and records a state other than RUNNING
SnapshotNotRunning == state_file.exists /\ state_file.state.state # "RUNNING"

\* C36 as stated: with automatic restarts enabled, after every operation
\* that takes the oven from RUNNING to IDLE (abort_run, an emergency abort,
\* natural completion, a run_profile that ended the previous run and was
\* refused for a sensor fault) the recovery snapshot records a state other
\* than RUNNING, so the idle cycle does not resume the stopped run.
C36_SnapshotAfterStop == StoppedRun => SnapshotNotRunning

\* a refused run_profile ended a run and the snapshot, written by a cycle of
\* that run, still says RUNNING
C36_RefusedWithRunningSnapshot ==
    /\ StoppedRun
    /\ last.op = "run_profile"
    /\ sensor_fault(last.pre)
    /\ state_file.exists
    /\ state_file.mtime >= 0
    /\ state_file.state.state = "RUNNING"

\* what holds: abort_run, the emergency abort and natural completion write
\* the snapshot after the reset; a refused run_profile leaves the file as it
\* was
C36_SnapshotAfterAbortOrCompletion ==
    StoppedRun =>
        /\ last.op # "run_profile" =>
              /\ SnapshotNotRunning
              /\ state_file.mtime = last.t
        /\ last.op = "run_profile" => state_file = last.pre.file

\* the idle cycle resumed a run that a refused run_profile had ended
C36_ResumedByIdleCycle ==
    /\ cfg.automatic_restarts
    /\ last.op = "idle_cycle"
    /\ last.ret
    /\ last.pre.o.state = "IDLE"
    /\ last.pre.o.profile = None
    /\ last.pre.file.mtime > 0
    /\ oven.state = "RUNNING"

(***************************************************************************)
(* C37: the heater output of the real oven while the oven is IDLE.         *)
(***************************************************************************)
\* the oven is IDLE and the control thread is between two iterations
IdleBetweenCycles ==
    /\ ~cfg.simulate
    /\ oven.state = "IDLE"
    /\ threads["loop"].pc = "idle"

\* C37 as stated: on the real oven the heater output is low and the heat
\* indicator is 0 whenever the oven is IDLE and no control cycle is in
\* progress, also when abort_run was called from another thread at any point
\* of a control cycle: once the interrupted cycle has finished the output is
\* low.
C37_HeaterOffWhenIdle ==
    IdleBetweenCycles => (oven.output = "LOW" /\ oven.heat = 0)

\* abort_run came between the PID computation and the actuation with duty 1:
\* the cycle has finished, the oven is IDLE and the heater is on
C37_HeaterOnWhileIdle ==
    /\ IdleBetweenCycles
    /\ threads["loop"].interrupted
    /\ threads["loop"].heat_on = time_step * 100
    /\ oven.output = "HIGH"
    /\ oven.heat = 100

\* without an abort_run inside the cycle the heater is off whenever the oven
\* is IDLE between two iterations
C37_HeaterOffUninterrupted ==
    (IdleBetweenCycles /\ ~threads["loop"].interrupted) =>
        (oven.output = "LOW" /\ oven.heat = 0)

\* the idle cycle leaves the output as it is: the heater stays on
C37_HeaterOnAfterIdleCycle ==
    /\ IdleBetweenCycles
    /\ last.op = "idle_cycle"
    /\ oven.output = "HIGH"

(***************************************************************************)
(* C38: run_profile during the natural-completion step.                    *)
(***************************************************************************)
\* the control thread has finished a completion step (runtime > totaltime
\* was found) during which a web thread's run_profile started a new run
\* with session N; nothing has run since
CompletionCrossedByNewRun ==
    /\ last.op = "ended_save"
    /\ threads["loop"].ret
    /\ threads["api1"].op = "run_profile"
    /\ threads["api1"].ret
    /\ threads["api1"].created # None

\* C38 as stated: the new run is not lost: its session is neither finalized
\* as COMPLETED nor left un-ended with the active pointer dropped, and the
\* oven ends up RUNNING the new profile with no cooldown capture active.
C38_NewRunNotLost ==
    CompletionCrossedByNewRun =>
        LET N == threads["api1"].created
        IN /\ db.sessions[N].outcome # "COMPLETED"
           /\ ~(db.sessions[N].ended_at = NoneTs /\ oven.active_session_id # N)
           /\ oven.state = "RUNNING"
           /\ oven.profile = threads["api1"].profile
           /\ NoCooldown(oven)

\* run_profile came between the test of runtime > totaltime and the read of
\* the session pointer: the new session is stored as COMPLETED, the capture
\* follows it and the oven is IDLE
C38_NewSessionCompleted ==
    /\ CompletionCrossedByNewRun
    /\ db.sessions[threads["api1"].created].outcome = "COMPLETED"
    /\ oven.cooldown_session_id = threads["api1"].created
    /\ oven.state = "IDLE"
    /\ oven.profile = None

\* run_profile came after the read of the pointer: the new session stays
\* un-ended, the pointer is dropped and the oven is IDLE
C38_NewSessionOrphaned ==
    /\ CompletionCrossedByNewRun
    /\ db.sessions[threads["api1"].created].ended_at = NoneTs
    /\ oven.active_session_id = None
    /\ oven.state = "IDLE"

\* run_profile came after reset(): the new run goes on, and the snapshot
\* written by the completion step records it as RUNNING
C38_NewRunKept ==
    /\ CompletionCrossedByNewRun
    /\ oven.state = "RUNNING"
    /\ oven.active_session_id = threads["api1"].created
    /\ NoCooldown(oven)

\* a completion step that no run_profile crossed ends as the one-step
\* reset_if_schedule_ended does: IDLE, pointer unset, capture for the session
C38_CompletionUncrossed ==
    (last.op = "ended_save" /\ ~threads["loop"].interrupted) =>
        /\ oven.state = "IDLE"
        /\ oven.active_session_id = None
        /\ oven.cooldown_session_id = threads["loop"].sid
        /\ threads["loop"].sid # None => db.sessions[threads["loop"].sid].outcome = "COMPLETED"

(***************************************************************************)
(* C39: cooldown capture ends.                                             *)
(***************************************************************************)
CaptureActive == oven.cooldown_session_id # None

\* C39: a cooldown capture started at time s always ends: while the control
\* thread keeps ticking and the clock advances the cooldown session id
\* becomes unset, and the first tick at or after s + 48 hours leaves it
\* unset, whatever the temperature and with nobody cancelling.
C39_CaptureEnds ==
    /\ [](CaptureActive => oven.cooldown_until_ts = oven.cooldown_started_ts + COOLDOWN_CAP)
    /\ []((TickAtDeadline /\ last.t >= last.mid.o.cooldown_started_ts + COOLDOWN_CAP)
             => NoCooldown(oven))
    /\ [](CaptureActive => now <= oven.cooldown_started_ts + COOLDOWN_CAP + time_step)
    /\ (CaptureActive ~> ~CaptureActive)

\* a tick at the cap found the kiln still above the threshold and ended the
\* capture
C39_EndedByCap ==
    /\ TickAtDeadline
    /\ Temp(last.mid) >= _cooldown_capture_threshold
    /\ last.t >= last.mid.o.cooldown_started_ts + COOLDOWN_CAP
    /\ NoCooldown(oven)

(***************************************************************************)
(* C40: a run whose kiln tracks the schedule.                              *)
(***************************************************************************)
\* the oven is back in IDLE after natural completion
RunCompleted ==
    /\ oven.alive
    /\ oven.state = "IDLE"
    /\ last.op = "running_cycle"
    /\ last.late.o.runtime > last.late.o.totaltime

\* C40 as stated: under fair execution of control cycles with an advancing
\* clock, with no emergency condition, nobody aborting and the corrected
\* temperature within the control window of the target in every cycle, a
\* RUNNING run eventually reaches runtime > totaltime and the oven returns
\* to IDLE with the session COMPLETED.
C40_TrackingRunCompletes ==
    (oven.state = "RUNNING") ~>
        (RunCompleted /\ \A id \in SessionIds(db) : db.sessions[id].outcome = "COMPLETED")

\* the run reached runtime = totaltime on a clock read: update_target_temp
\* raised, the control thread is gone and the oven is RUNNING for ever
C40_TrackingRunDied ==
    /\ last.op = "running_cycle"
    /\ ~oven.alive
    /\ oven.state = "RUNNING"
    /\ oven.runtime = oven.totaltime
    /\ oven.active_session_id # None
    /\ db.sessions[oven.active_session_id].outcome = "RUNNING"

\* what holds: the run completes, or its control thread dies at
\* runtime = totaltime
C40_CompletesOrDies ==
    (oven.state = "RUNNING") ~>
        (RunCompleted \/ (~oven.alive /\ oven.runtime = oven.totaltime))

\* a tracked run that passed its end between two clock reads: COMPLETED
C40_TrackedRunCompleted ==
    /\ RunCompleted
    /\ Len(db.sessions) = 1
    /\ db.sessions[1].outcome = "COMPLETED"
    /\ oven.cooldown_session_id = 1

====
